---- MODULE Spec2Model ----
(***************************************************************************)
(* Model of the reactive computation graph of nionswift:                   *)
(*   Symbolic.py   Computation / ComputationVariable / ComputationOutput   *)
(*   Project.py    the persistent store and its collections                *)
(*   Changes.py    the undelete log                                        *)
(*                                                                         *)
(* A Python exception is modelled by the variable `raised`: an operation   *)
(* that raises keeps every assignment it made before the raise.            *)
(***************************************************************************)
EXTENDS Integers, Sequences, FiniteSets, TLC

\* ------------------------------------------------------------------ bounds
MaxVars == 2          \* variables per Computation
MaxResults == 1       \* outputs per Computation
MaxEvals == 1         \* counted evaluations per Computation
MaxListeners == 2     \* live listeners of one Computation on one slot event
MaxRead == 2          \* items in the properties read_project reads
MaxLog == 2           \* records appended to one UndeleteLog
MaxReplays == 2       \* counted calls of undelete on one record

\* --------------------------------------------------------------- universe
DataItemIds == {"D1", "D2"}
DataStructureIds == {"S1"}
CompIds == {"K1", "K2"}
VarKinds == {"a", "k", "n", "l"}
ResultKinds == {"r", "rl"}
ProcessingIds == {"none", "reg", "unreg"}

None == "none"

\* ------------------------------------------------------- sequence helpers
Range(s) == {s[i] : i \in 1..Len(s)}

RemoveAt(s, i) == SubSeq(s, 1, i - 1) \o SubSeq(s, i + 1, Len(s))

RECURSIVE IndexOfFrom(_, _, _)
IndexOfFrom(s, x, i) ==
    IF i > Len(s) THEN 0
    ELSE IF s[i] = x THEN i
    ELSE IndexOfFrom(s, x, i + 1)

IndexOf(s, x) == IndexOfFrom(s, x, 1)

RECURSIVE FilterSeq(_, _)
FilterSeq(s, keep) ==
    IF s = <<>> THEN <<>>
    ELSE IF Head(s) \in keep THEN <<Head(s)>> \o FilterSeq(Tail(s), keep)
    ELSE FilterSeq(Tail(s), keep)

\* ------------------------------------------------ specifiers, bound items
NoSpec == [type |-> None, uuid |-> None]

\* DataStructure.get_object_specifier for a data item
get_object_specifier(u) == [type |-> "data_item", uuid |-> u]

NoBound == [kind |-> None, target |-> None, items |-> <<>>]

BoundItem(u) == [kind |-> "item", target |-> u, items |-> <<>>]

BoundList(us) == [kind |-> "list", target |-> None, items |-> us]

\* ComputationVariable.bound_variable: pass-through handle on the variable
BoundVariable(vuuid) == [kind |-> "variable", target |-> vuuid, items |-> <<>>]

\* ------------------------------------------------- ComputationVariable
\* ComputationVariable.__init__ as called by create_variable (kinds k, n)
\* and create_input_item (kinds a, l)
NewVariable(id, kind, u) ==
    [ uuid |-> id,
      name |-> id,
      value_type |-> IF kind \in {"k", "n"} THEN "integral" ELSE None,
      value |-> IF kind = "k" THEN "val" ELSE None,
      specifier |-> IF kind = "a" THEN get_object_specifier(u) ELSE NoSpec,
      has_objects |-> (kind = "l"),
      objects |-> IF kind = "l" THEN <<u>> ELSE <<>>,
      object_specifiers |-> IF kind = "l" THEN <<u>> ELSE <<>>,
      olisten |-> (kind = "l"),
      shares |-> FALSE,
      bound_item |-> NoBound,
      nchg |-> 0,
      nreb |-> 0,
      open |-> 0,
      blisten |-> 0 ]

\* ComputationOutput.__init__ as called by create_output_item
NewResult(kind, u) ==
    [ uuid |-> kind,
      name |-> kind,
      specifier |-> IF kind = "r" THEN get_object_specifier(u) ELSE NoSpec,
      has_specifiers |-> (kind = "rl"),
      specifiers |-> IF kind = "rl" THEN <<u>> ELSE <<>>,
      bound_item |-> NoBound,
      nreb |-> 0,
      stale |-> {} ]

\* ComputationVariable.variable_specifier
variable_specifier(v) ==
    IF v.value_type # None
    THEN [type |-> "variable", uuid |-> v.uuid]
    ELSE v.specifier

\* ---------------------------------------------------------- Computation
\* Computation.__init__ (expression given or not)
NewComputation(has_expression, pid) ==
    [ variables |-> <<>>,
      results |-> <<>>,
      vchg |-> {},
      vreb |-> {},
      rreb |-> {},
      needs_update |-> has_expression,
      error_text |-> None,
      mutated |-> 0,
      seen |-> <<>>,
      rebinds |-> 0,
      processing_id |-> pid,
      count |-> 0,
      time |-> 0,
      calls |-> 0,
      attached |-> FALSE,
      ctx |-> FALSE,
      is_bound |-> FALSE,
      ever_bound |-> FALSE,
      container |-> FALSE,
      about_to_be_removed |-> FALSE,
      closed |-> FALSE,
      source_proxy |-> TRUE ]

Ok(c) == [c |-> c, exc |-> None]

\* what a listener of computation_mutated_event finds when it runs
Seen(c) ==
    [ needs_update |-> c.needs_update,
      items |-> [i \in 1..Len(c.variables) |-> c.variables[i].bound_item] ]

\* computation_mutated_event.fire()
computation_mutated(c) ==
    [c EXCEPT !.mutated = @ + 1, !.seen = Append(@, Seen(c))]

Raise(c, e) == [c |-> c, exc |-> e]

\* Computation.resolve_variable: index of the variable with that uuid, or 0
RECURSIVE resolve_variable_from(_, _, _)
resolve_variable_from(c, spec, i) ==
    IF i > Len(c.variables) THEN 0
    ELSE IF c.variables[i].uuid = spec.uuid THEN i
    ELSE resolve_variable_from(c, spec, i + 1)

resolve_variable(c, spec) ==
    IF spec # NoSpec /\ spec.uuid # None
    THEN resolve_variable_from(c, spec, 1)
    ELSE 0

\* the project-wide context: a dangling target resolves to null; a list of
\* specifiers resolves to a list handle kept in lockstep with the list
ProjectResolve(spec, has_objects, objects, present) ==
    IF has_objects THEN BoundList(objects)
    ELSE IF spec = NoSpec THEN NoBound
    ELSE IF spec.type = "data_item" /\ spec.uuid \in present THEN BoundItem(spec.uuid)
    ELSE NoBound

\* resolve_object_specifier that hands out the pass-through handle of any
\* own variable
resolve_object_specifier_any_own(c, spec, has_objects, objects, present) ==
    LET i == resolve_variable(c, spec) IN
    IF i = 0 THEN ProjectResolve(spec, has_objects, objects, present)
    ELSE BoundVariable(c.variables[i].uuid)

\* ComputationContext.resolve_object_specifier
resolve_object_specifier(c, spec, has_objects, objects, present) ==
    LET i == resolve_variable(c, spec) IN
    IF i = 0 THEN ProjectResolve(spec, has_objects, objects, present)
    ELSE IF c.variables[i].specifier = NoSpec
         THEN BoundVariable(c.variables[i].uuid)
         ELSE NoBound

\* value of a bound item: the referenced object, or the variable's value
BoundValue(c, b) ==
    IF b.kind = "variable"
    THEN LET i == resolve_variable(c, [type |-> "variable", uuid |-> b.target])
         IN IF i = 0 THEN None ELSE c.variables[i].value
    ELSE IF b.kind = "item" THEN b.target
    ELSE IF b.kind = "list" THEN "list"
    ELSE None

\* a bound_item setter that stores the new item without closing the old one
set_bound_item_leaks(v, b) ==
    [v EXCEPT !.bound_item = b,
              !.open = @ + (IF b # NoBound THEN 1 ELSE 0),
              !.blisten = @ + (IF b # NoBound THEN 1 ELSE 0)]

\* ComputationVariable.bound_item setter: close the listeners on the old
\* bound item and the old bound item, store the new one, listen to it;
\* open counts the bound items made for the variable and not closed,
\* blisten the bound items the variable listens to
set_bound_item(v, b) ==
    [v EXCEPT !.bound_item = b,
              !.open = (IF v.bound_item # NoBound THEN @ - 1 ELSE @)
                       + (IF b # NoBound THEN 1 ELSE 0),
              !.blisten = IF b # NoBound THEN 1 ELSE 0]

\* Computation.__bind_variable
BindVariable(c, i, present) ==
    LET v  == c.variables[i]
        c1 == [c EXCEPT !.vchg = @ \cup {v.uuid},
                        !.vreb = @ \cup {v.uuid},
                        !.variables[i].nchg = @ + 1,
                        !.variables[i].nreb = @ + 1,
                        !.ever_bound = TRUE]
    IN  IF ~c.ctx THEN Raise(c1, "AttributeError")
        ELSE Ok([c1 EXCEPT !.variables[i] = set_bound_item(@,
                    resolve_object_specifier(c1, variable_specifier(v),
                                             v.has_objects, v.objects, present))])

\* __unbind_variable that forgets to clear the variable's bound item
UnbindVariable_keeps_item(c, i) ==
    LET v == c.variables[i] IN
    IF v.uuid \notin c.vchg \/ v.uuid \notin c.vreb THEN Raise(c, "KeyError")
    ELSE Ok([c EXCEPT !.vchg = @ \ {v.uuid}, !.vreb = @ \ {v.uuid},
                      !.variables[i].nchg = @ - 1, !.variables[i].nreb = @ - 1])

\* Computation.__unbind_variable
UnbindVariable(c, i) ==
    LET v == c.variables[i] IN
    IF v.uuid \notin c.vchg THEN Raise(c, "KeyError")
    ELSE LET c1 == [c EXCEPT !.vchg = @ \ {v.uuid},
                             !.variables[i].nchg = @ - 1]
         IN IF v.uuid \notin c1.vreb THEN Raise(c1, "KeyError")
            ELSE LET c2 == [c1 EXCEPT !.vreb = @ \ {v.uuid},
                                      !.variables[i].nreb = @ - 1]
                 IN Ok([c2 EXCEPT !.variables[i] = set_bound_item(@, NoBound)])

\* ComputationOutput.bind
OutputBind(c, r, present) ==
    IF r.specifier # NoSpec
    THEN resolve_object_specifier(c, r.specifier, FALSE, <<>>, present)
    ELSE IF r.has_specifiers
    THEN BoundList(FilterSeq(r.specifiers, present))
    ELSE NoBound

\* the targets of the bound items ComputationOutput.bind listens to; the
\* listeners are never closed, so an Output goes on listening to the bound
\* items it held before (stale)
ListenTargets(b) ==
    IF b.kind = "list" THEN Range(b.items)
    ELSE IF b.kind # None THEN {b.target}
    ELSE {}

\* Computation.__bind_result
BindResult(c, j, present) ==
    LET r  == c.results[j]
        c1 == [c EXCEPT !.rreb = @ \cup {r.uuid},
                        !.results[j].nreb = @ + 1,
                        !.ever_bound = TRUE]
    IN  IF ~c.ctx THEN Raise(c1, "AttributeError")
        ELSE Ok([c1 EXCEPT !.results[j].bound_item = OutputBind(c1, r, present)])

\* Computation.__unbind_result
UnbindResult(c, j) ==
    LET r == c.results[j] IN
    IF r.uuid \notin c.rreb THEN Raise(c, "KeyError")
    ELSE Ok([c EXCEPT !.rreb = @ \ {r.uuid},
                      !.results[j].nreb = @ - 1,
                      !.results[j].stale = @ \cup ListenTargets(r.bound_item),
                      !.results[j].bound_item = NoBound])

RECURSIVE BindVariablesFrom(_, _, _)
BindVariablesFrom(c, i, present) ==
    IF i > Len(c.variables) THEN Ok(c)
    ELSE LET r == BindVariable(c, i, present) IN
         IF r.exc # None THEN r ELSE BindVariablesFrom(r.c, i + 1, present)

RECURSIVE BindResultsFrom(_, _, _)
BindResultsFrom(c, j, present) ==
    IF j > Len(c.results) THEN Ok(c)
    ELSE LET r == BindResult(c, j, present) IN
         IF r.exc # None THEN r ELSE BindResultsFrom(r.c, j + 1, present)

RECURSIVE UnbindVariablesFrom(_, _)
UnbindVariablesFrom(c, i) ==
    IF i > Len(c.variables) THEN Ok(c)
    ELSE LET r == UnbindVariable(c, i) IN
         IF r.exc # None THEN r ELSE UnbindVariablesFrom(r.c, i + 1)

RECURSIVE UnbindResultsFrom(_, _)
UnbindResultsFrom(c, j) ==
    IF j > Len(c.results) THEN Ok(c)
    ELSE LET r == UnbindResult(c, j) IN
         IF r.exc # None THEN r ELSE UnbindResultsFrom(r.c, j + 1)

\* the re-bind assertions of Computation.bind
NoSlotBound(c) ==
    /\ \A i \in 1..Len(c.variables) : c.variables[i].bound_item = NoBound
    /\ \A j \in 1..Len(c.results) : c.results[j].bound_item = NoBound

\* Computation.bind
bind(c, present) ==
    IF ~c.attached THEN Raise(c, "AssertionError")
    ELSE LET c1 == [c EXCEPT !.ctx = TRUE] IN
         IF ~NoSlotBound(c1) THEN Raise(c1, "AssertionError")
         ELSE LET rv == BindVariablesFrom(c1, 1, present) IN
              IF rv.exc # None THEN rv
              ELSE LET rr == BindResultsFrom(rv.c, 1, present) IN
                   IF rr.exc # None THEN rr
                   ELSE Ok([rr.c EXCEPT !.is_bound = TRUE])

\* Computation.unbind
unbind(c) ==
    LET c0 == [c EXCEPT !.is_bound = FALSE]
        rv == UnbindVariablesFrom(c0, 1) IN
    IF rv.exc # None THEN rv
    ELSE UnbindResultsFrom(rv.c, 1)

\* one result of the loop in Computation.is_resolved; all(None) raises
result_resolved(r) ==
    IF r.specifier # NoSpec /\ r.bound_item = NoBound THEN "false"
    ELSE IF r.has_specifiers /\ r.specifiers # <<>>
    THEN IF r.bound_item = NoBound THEN "TypeError" ELSE "true"
    ELSE "true"

RECURSIVE results_resolved_from(_, _)
results_resolved_from(c, j) ==
    IF j > Len(c.results) THEN "true"
    ELSE LET x == result_resolved(c.results[j]) IN
         IF x # "true" THEN x ELSE results_resolved_from(c, j + 1)

\* Computation.is_resolved: "true", "false", or the exception it raises
is_resolved(c) ==
    IF \E i \in 1..Len(c.variables) :
          c.variables[i].specifier # NoSpec /\ c.variables[i].bound_item = NoBound
    THEN "false"
    ELSE results_resolved_from(c, 1)

\* the loop over variables in Computation.__resolve_inputs: every variable
\* assigns is_resolved
RECURSIVE resolve_inputs_variables(_, _, _)
resolve_inputs_variables(c, i, acc) ==
    IF i > Len(c.variables) THEN acc
    ELSE LET b == c.variables[i].bound_item IN
         resolve_inputs_variables(c, i + 1,
             IF b # NoBound THEN BoundValue(c, b) # None ELSE FALSE)

\* the loop over results in Computation.__resolve_inputs
RECURSIVE resolve_inputs_results(_, _, _)
resolve_inputs_results(c, j, acc) ==
    IF j > Len(c.results) THEN [exc |-> None, is_resolved |-> acc]
    ELSE LET r == c.results[j]
             a1 == IF r.specifier # NoSpec /\ r.bound_item = NoBound
                   THEN FALSE ELSE acc
         IN IF r.has_specifiers /\ r.specifiers # <<>>
            THEN IF r.bound_item = NoBound
                 THEN [exc |-> "TypeError", is_resolved |-> a1]
                 ELSE resolve_inputs_results(c, j + 1, a1)
            ELSE resolve_inputs_results(c, j + 1, a1)

\* Computation.__resolve_inputs
resolve_inputs(c) ==
    resolve_inputs_results(c, 1, resolve_inputs_variables(c, 1, TRUE))

NoRet == [compute_obj |-> None, error_text |-> None]

\* the body of Computation.evaluate once needs_update has been read into the
\* local and c1 is the Computation after `self.needs_update = False`;
\* outcome is what the registered compute class does
evaluate_body(c, c1, outcome) ==
    IF ~c.needs_update THEN [c |-> c1, exc |-> None, ret |-> NoRet]
    ELSE LET ri == resolve_inputs(c1) IN
         IF ri.exc # None THEN [c |-> c1, exc |-> ri.exc, ret |-> NoRet]
         ELSE IF ri.is_resolved
         THEN IF c1.processing_id = "reg"
              THEN [c |-> [c1 EXCEPT !.calls = @ + 1, !.count = @ + 1, !.time = @ + 1],
                    exc |-> None,
                    ret |-> IF outcome = "ok"
                            THEN [compute_obj |-> "obj", error_text |-> None]
                            ELSE [compute_obj |-> None, error_text |-> "Unable to evaluate script."]]
              ELSE IF c1.processing_id = None
                   THEN [c |-> c1, exc |-> "TypeError", ret |-> NoRet]
                   ELSE [c |-> [c1 EXCEPT !.count = @ + 1, !.time = @ + 1],
                         exc |-> None,
                         ret |-> [compute_obj |-> None, error_text |-> "Missing computation."]]
         ELSE [c |-> [c1 EXCEPT !.count = @ + 1, !.time = @ + 1],
               exc |-> None,
               ret |-> [compute_obj |-> None, error_text |-> "Missing parameters."]]

\* evaluate that leaves needs_update set
evaluate_keeps_flag(c, outcome) == evaluate_body(c, c, outcome)

\* Computation.evaluate
evaluate(c, outcome) == evaluate_body(c, [c EXCEPT !.needs_update = FALSE], outcome)

\* Computation.mark_update
mark_update(c) == computation_mutated([c EXCEPT !.needs_update = TRUE])

\* Computation.insert_variable at the end (add_variable)
insert_variable(c, v, present) ==
    LET c1 == [c EXCEPT !.variables = Append(@, v)]
        rb == IF c1.attached THEN BindVariable(c1, Len(c1.variables), present) ELSE Ok(c1)
    IN  IF rb.exc # None THEN rb
        ELSE Ok([computation_mutated(rb.c) EXCEPT !.needs_update = TRUE])

\* Computation.create_output_item
create_output_item(c, r, present) ==
    LET c1 == [c EXCEPT !.results = Append(@, r)]
        rb == IF c1.attached THEN BindResult(c1, Len(c1.results), present) ELSE Ok(c1)
    IN  IF rb.exc # None THEN rb
        ELSE Ok(computation_mutated(rb.c))

\* a rebind listener that marks the Computation but does not re-resolve
rebind_variable_marks_only(c, i, present) ==
    IF c.variables[i].uuid \notin c.vreb THEN Ok(c)
    ELSE Ok([c EXCEPT !.needs_update = TRUE])

\* the listener `rebind` that __bind_variable puts on variable.needs_rebind_event
rebind_variable(c, i, present) ==
    IF c.variables[i].uuid \notin c.vreb THEN Ok(c)
    ELSE LET c1 == [c EXCEPT !.needs_update = TRUE, !.rebinds = @ + 1]
             ru == UnbindVariable(c1, i) IN
         IF ru.exc # None THEN ru ELSE BindVariable(ru.c, i, present)

\* the listener `needs_update` that __bind_variable puts on variable.changed_event
variable_changed(c, i) ==
    IF c.variables[i].uuid \notin c.vchg THEN c
    ELSE computation_mutated([c EXCEPT !.needs_update = TRUE])

\* a bound item of variable i fires because entity u left the store:
\* needs_rebind for a direct item, child_removed for a list
variable_target_removed(c, i, u, present) ==
    LET v == c.variables[i] IN
    IF v.bound_item.kind = "item" /\ v.bound_item.target = u
    THEN rebind_variable(c, i, present)
    ELSE IF v.bound_item.kind = "list" /\ u \in Range(v.bound_item.items)
    THEN LET c1 == [c EXCEPT !.variables[i].objects = RemoveAt(@, IndexOf(@, u)),
                             !.variables[i].object_specifiers = RemoveAt(@, IndexOf(@, u))]
             rr == rebind_variable(c1, i, present)
         IN IF rr.exc # None THEN rr ELSE Ok(variable_changed(rr.c, i))
    ELSE Ok(c)

\* ComputationOutput.__unbind, the listener on each bound item's needs_rebind
output_target_removed(c, j, u) ==
    LET b == c.results[j].bound_item IN
    IF \/ b.kind = "item" /\ b.target = u
       \/ b.kind = "list" /\ u \in Range(b.items)
       \/ u \in c.results[j].stale
    THEN [c EXCEPT !.results[j].stale = @ \cup ListenTargets(b),
                   !.results[j].bound_item = NoBound]
    ELSE c

RECURSIVE variables_target_removed_from(_, _, _, _)
variables_target_removed_from(c, i, u, present) ==
    IF i > Len(c.variables) THEN Ok(c)
    ELSE LET r == variable_target_removed(c, i, u, present) IN
         IF r.exc # None THEN r
         ELSE variables_target_removed_from(r.c, i + 1, u, present)

RECURSIVE outputs_target_removed_from(_, _, _)
outputs_target_removed_from(c, j, u) ==
    IF j > Len(c.results) THEN c
    ELSE outputs_target_removed_from(output_target_removed(c, j, u), j + 1, u)

\* everything a Computation does when entity u has been removed
target_removed(c, u, present) ==
    LET rv == variables_target_removed_from(c, 1, u, present) IN
    IF rv.exc # None THEN rv
    ELSE Ok(outputs_target_removed_from(rv.c, 1, u))

\* ------------------------------------------- property changes and events
\* variable.changed_event fires n times
RECURSIVE changed_fires(_, _, _)
changed_fires(c, i, n) ==
    IF n = 0 THEN c ELSE changed_fires(variable_changed(c, i), i, n - 1)

\* ComputationVariable.__property_changed for "secondary_specifier", after
\* the property has been stored: changed fires for the property and for
\* secondary_specifier_uuid_str, needs_rebind fires, changed fires again
secondary_specifier_changed(c, i, present) ==
    LET r == rebind_variable(changed_fires(c, i, 2), i, present) IN
    IF r.exc # None THEN r ELSE Ok(changed_fires(r.c, i, 1))

\* ComputationVariable.__property_changed for "specifier", after the
\* property has been stored: changed fires for the property and for
\* specifier_uuid_str and needs_rebind fires; `name in ("secondary_specifier")`
\* is a substring test that "specifier" passes as well, so changed fires for
\* secondary_specifier_uuid_str and needs_rebind fires again; changed fires
\* a last time
specifier_changed(c, i, present) ==
    LET r1 == rebind_variable(changed_fires(c, i, 2), i, present) IN
    IF r1.exc # None THEN r1
    ELSE LET r2 == rebind_variable(changed_fires(r1.c, i, 1), i, present) IN
         IF r2.exc # None THEN r2 ELSE Ok(changed_fires(r2.c, i, 1))

\* assignment to ComputationVariable.specifier
set_specifier(c, i, sp, present) ==
    specifier_changed([c EXCEPT !.variables[i].specifier = sp], i, present)

\* Computation.set_input_item: every variable of that name gets the
\* specifier of the item
RECURSIVE set_input_item_from(_, _, _, _, _)
set_input_item_from(c, i, name, u, present) ==
    IF i > Len(c.variables) THEN Ok(c)
    ELSE IF c.variables[i].name # name
    THEN set_input_item_from(c, i + 1, name, u, present)
    ELSE LET r == set_specifier(c, i, get_object_specifier(u), present) IN
         IF r.exc # None THEN r
         ELSE set_input_item_from(r.c, i + 1, name, u, present)

set_input_item(c, name, u, present) == set_input_item_from(c, 1, name, u, present)

\* a changed listener that runs although the Computation closed it
variable_value_changed_unguarded(c, i) ==
    computation_mutated([c EXCEPT !.needs_update = TRUE])

\* ComputationVariable.__property_changed for a property other than the
\* specifiers: changed fires twice, and once more through the variable's
\* own pass-through bound item when the property is the value
variable_value_changed(c, i) ==
    LET v == c.variables[i]
        n == IF v.bound_item.kind = "variable" /\ v.blisten > 0 THEN 3 ELSE 2
    IN changed_fires(c, i, n)

\* assignment to ComputationVariable.value
set_value(c, i, val) ==
    variable_value_changed([c EXCEPT !.variables[i].value = val], i)

\* ComputationVariable.variable_type getter
variable_type(v) ==
    IF v.value_type # None THEN v.value_type
    ELSE IF v.specifier # NoSpec THEN v.specifier.type
    ELSE None

\* properties the variable_type setter assigns besides the specifiers:
\* value_type, control_type, value_default, value_min, value_max
PropertiesReset == 5

\* ComputationVariable.variable_type setter for a value type and for a
\* data item type; the secondary specifier fires like the specifier
set_variable_type(c, i, t, present) ==
    LET v == c.variables[i] IN
    IF t = variable_type(v) THEN Ok(c)
    ELSE IF t = "integral"
    THEN LET r1 == set_specifier(c, i, NoSpec, present) IN
         IF r1.exc # None THEN r1
         ELSE LET r2 == secondary_specifier_changed(r1.c, i, present) IN
              IF r2.exc # None THEN r2
              ELSE Ok(changed_fires([r2.c EXCEPT !.variables[i].value_type = t],
                                    i, 2 * PropertiesReset))
    ELSE LET c1 == changed_fires([c EXCEPT !.variables[i].value_type = None],
                                 i, 2 * PropertiesReset)
             sp == [type |-> "data_source",
                    uuid |-> IF v.specifier.type = "data_item"
                             THEN v.specifier.uuid ELSE None]
             r1 == set_specifier(c1, i, sp, present)
         IN IF r1.exc # None THEN r1 ELSE secondary_specifier_changed(r1.c, i, present)

\* ComputationVariable.restore_properties: value, specifier and the
\* secondary specifier are assigned in that order
restore_properties(c, i, val, sp, present) ==
    LET r == set_specifier(set_value(c, i, val), i, sp, present) IN
    IF r.exc # None THEN r ELSE secondary_specifier_changed(r.c, i, present)

\* the listener the variable puts on its bound item's changed_event
bound_item_changed(c, i) ==
    IF c.variables[i].blisten > 0 THEN variable_changed(c, i) ELSE c

\* a variable that does not forward its bound item's needs_rebind
bound_item_needs_rebind_dropped(c, i, present) == Ok(c)

\* the listener the variable puts on its bound item's needs_rebind_event
bound_item_needs_rebind(c, i, present) ==
    IF c.variables[i].blisten > 0 THEN rebind_variable(c, i, present) ELSE Ok(c)

\* bound items variable i listens to and no longer holds
StaleItems(v) == v.blisten - (IF v.bound_item # NoBound THEN 1 ELSE 0)

\* a bound item the slot held before fires changed and needs_rebind: the
\* variable's listeners on it, if any are left, and the listener
\* ComputationOutput.bind left on it
RECURSIVE discarded_fires_variables(_, _, _)
discarded_fires_variables(c, i, present) ==
    IF i > Len(c.variables) THEN Ok(c)
    ELSE IF StaleItems(c.variables[i]) <= 0
    THEN discarded_fires_variables(c, i + 1, present)
    ELSE LET r == rebind_variable(variable_changed(c, i), i, present) IN
         IF r.exc # None THEN r ELSE discarded_fires_variables(r.c, i + 1, present)

discarded_fires(c, present) ==
    LET r == discarded_fires_variables(c, 1, present) IN
    IF r.exc # None THEN r
    ELSE Ok([r.c EXCEPT !.results = [j \in 1..Len(r.c.results) |->
                 IF r.c.results[j].stale # {}
                 THEN [r.c.results[j] EXCEPT
                          !.stale = @ \cup ListenTargets(r.c.results[j].bound_item),
                          !.bound_item = NoBound]
                 ELSE r.c.results[j]]])

\* ------------------------------------------- expression and structural edits
\* texts an expression can be; the empty text is falsy like None
ExpressionTexts == {"", "x", "y"}

\* Computation.__init__ with the text of the expression kept in
\* original_expression
NewExpression(text, pid) ==
    NewComputation(text # None, pid) @@ [original_expression |-> text]

\* an expression setter that does not compare with the current text
set_expression_unguarded(c, value) ==
    computation_mutated([c EXCEPT !.original_expression = value,
                                  !.processing_id = None,
                                  !.needs_update = TRUE])

\* Computation.expression setter
set_expression(c, value) ==
    IF value # c.original_expression
    THEN computation_mutated([c EXCEPT !.original_expression = value,
                                       !.processing_id = None,
                                       !.needs_update = TRUE])
    ELSE c

\* Computation.evaluate_with_target: the bound variables are collected and
\* the expression, when there is one, is executed against the target;
\* outcome is what the executed code does
evaluate_with_target(c, target, outcome) ==
    IF target = None THEN [c |-> c, exc |-> "AssertionError", ret |-> NoRet]
    ELSE LET c1 == [c EXCEPT !.needs_update = FALSE] IN
         IF ~c.needs_update THEN [c |-> c1, exc |-> None, ret |-> NoRet]
         ELSE IF c1.original_expression \notin {None, ""}
         THEN [c |-> [c1 EXCEPT !.calls = @ + 1, !.count = @ + 1, !.time = @ + 1],
               exc |-> None,
               ret |-> [compute_obj |-> None,
                        error_text |-> IF outcome = "ok" THEN None
                                       ELSE "Unable to evaluate script."]]
         ELSE [c |-> [c1 EXCEPT !.count = @ + 1, !.time = @ + 1],
               exc |-> None, ret |-> NoRet]

\* Computation.remove_variable of the variable at index i
remove_variable(c, i) ==
    LET ru == UnbindVariable(c, i) IN
    IF ru.exc # None THEN ru
    ELSE Ok([computation_mutated([ru.c EXCEPT !.variables = RemoveAt(@, i)])
                EXCEPT !.needs_update = TRUE])

\* truth value of an Output's bound_item: None and the empty list are falsy
Truthy(b) == b # NoBound /\ ~(b.kind = "list" /\ b.items = <<>>)

\* Computation._clear_referenced_object; names of Outputs are distinct, so
\* at most one Output is removed
RECURSIVE clear_referenced_object_from(_, _, _)
clear_referenced_object_from(c, j, name) ==
    IF j > Len(c.results) THEN Ok(c)
    ELSE IF c.results[j].name # name
    THEN clear_referenced_object_from(c, j + 1, name)
    ELSE LET ru == IF Truthy(c.results[j].bound_item) THEN UnbindResult(c, j) ELSE Ok(c) IN
         IF ru.exc # None THEN ru
         ELSE clear_referenced_object_from(
                  [computation_mutated([ru.c EXCEPT !.results = RemoveAt(@, j)])
                      EXCEPT !.needs_update = TRUE],
                  j, name)

clear_referenced_object(c, name) == clear_referenced_object_from(c, 1, name)

\* ------------------------------------------------------------ DataStructure
PropNames == {"p", "q"}

\* a property the dict does not hold
Absent == [kind |-> "absent", type |-> None, uuid |-> None]

\* the values a property is given: None, a scalar, the specifier of a data
\* item or of a data structure, a mapping with a type tag
\* __configure_reference_proxy does not know, and one without a uuid
PropValues ==
    { [kind |-> "none", type |-> None, uuid |-> None],
      [kind |-> "scalar", type |-> None, uuid |-> None],
      [kind |-> "dict", type |-> "data_item", uuid |-> "D1"],
      [kind |-> "dict", type |-> "structure", uuid |-> "S1"],
      [kind |-> "dict", type |-> "xdata", uuid |-> "D1"],
      [kind |-> "dict", type |-> "data_item", uuid |-> None] }

NoneValue == [kind |-> "none", type |-> None, uuid |-> None]

\* the objects set_referenced_object is given
ReferencedObjects == {"D1", "D2", "S1", "K1"}

\* DataStructure.get_object_specifier(item, object_type) as
\* set_referenced_object calls it
object_specifier(item) ==
    IF item \in DataItemIds THEN [kind |-> "dict", type |-> "data_item", uuid |-> item]
    ELSE IF item \in DataStructureIds
    THEN [kind |-> "dict", type |-> "structure", uuid |-> item]
    ELSE NoneValue

NoProxy == [exists |-> FALSE, uuid |-> None]

\* DataStructure.__init__
NewStructure ==
    [ properties |-> [p \in PropNames |-> Absent],
      proxies |-> [p \in PropNames |-> NoProxy],
      unclosed |-> {},
      exc |-> None,
      container |-> FALSE,
      about_to_be_removed |-> FALSE,
      closed |-> FALSE,
      source_proxy |-> TRUE ]

\* the test of __configure_reference_proxy
specifier_shaped(value) ==
    /\ value.kind = "dict"
    /\ value.type \in {"data_item", "display_item", "data_source", "graphic", "structure"}
    /\ value.uuid # None

\* DataStructure.__configure_reference_proxy: the new proxy is stored under
\* the property name; a proxy stored there before is dropped as it is
configure_reference_proxy(d, p, value) ==
    IF specifier_shaped(value)
    THEN [d EXCEPT !.proxies[p] = [exists |-> TRUE, uuid |-> value.uuid],
                   !.unclosed = IF d.proxies[p].exists THEN @ \cup {p} ELSE @]
    ELSE d

\* self.__referenced_object_proxies.pop(property, None), then close
pop_and_close(d, p) == [d EXCEPT !.proxies[p] = NoProxy]

\* DataStructure.set_property_value
set_property_value(d, p, value) ==
    configure_reference_proxy(pop_and_close([d EXCEPT !.properties[p] = value], p),
                              p, value)

\* DataStructure.remove_property_value
remove_property_value(d, p) ==
    IF d.properties[p] # Absent
    THEN pop_and_close([d EXCEPT !.properties[p] = Absent], p)
    ELSE d

\* DataStructure.get_referenced_object: the item of the proxy, which a
\* proxy made from a specifier looks up by uuid
get_referenced_object(d, p) ==
    IF d.proxies[p].exists THEN d.proxies[p].uuid ELSE None

\* DataStructure.set_referenced_object
set_referenced_object(d, p, item) ==
    IF item = None THEN [d EXCEPT !.exc = "AssertionError"]
    ELSE IF item # get_referenced_object(d, p)
    THEN LET value == object_specifier(item) IN
         configure_reference_proxy(
             pop_and_close([d EXCEPT !.properties[p] = value], p), p, value)
    ELSE d

\* DataStructure.__setattr__ with the name of a property or another name
setattr(d, name, value) ==
    IF name \in PropNames /\ d.properties[name] # Absent
    THEN IF value # NoneValue THEN set_property_value(d, name, value)
         ELSE remove_property_value(d, name)
    ELSE d

\* the loop of read_from_dict over the properties of the dict
RECURSIVE configure_each(_, _, _)
configure_each(d, names, props) ==
    IF names = {} THEN d
    ELSE LET p == CHOOSE x \in names : TRUE
             d1 == IF props[p] # Absent
                   THEN configure_reference_proxy(d, p, props[p])
                   ELSE d
         IN configure_each(d1, names \ {p}, props)

\* DataStructure.read_from_dict
read_from_dict(d, props) ==
    configure_each([d EXCEPT !.properties = props], PropNames, props)

\* -------------------------------------------------------------- data panel
\* no controller has been made
NoPanel == [kind |-> None]

\* the threads that use a controller
Threads == {"main", "notifier"}

\* the controllers that keep pending changes: the DataItemModelController keeps
\* a set of data items, the list DataPanel controller keeps one flag, which is
\* the set over the single element "adapters"
ControllerKinds == {"model", "list"}

Changeables(kind) == IF kind = "model" THEN DataItemIds ELSE {"adapters"}

Changes == UNION {Changeables(kind) : kind \in ControllerKinds}

\* a scheduled update task of the list controller that has not finished
MaxTasks == 2

\* a controller after its constructor; unobserved and acted are history: the
\* changes added that no drain has read, and what the last drain acted on
NewController(kind) ==
    [ kind |-> kind, mutex |-> None, pending |-> {}, tasks |-> 0,
      main |-> "idle", local |-> {}, notifier |-> "idle", item |-> None,
      unobserved |-> {}, acted |-> {}, actors |-> {} ]

\* entering `with mutex:` without waiting for the owner to leave
acquire_unlocked(p, who) == [p EXCEPT !.mutex = who]

\* entering `with mutex:`; the thread stays outside while another one owns it
acquire(p, who) == IF p.mutex = None THEN [p EXCEPT !.mutex = who] ELSE p

\* leaving `with mutex:`
release(p) == [p EXCEPT !.mutex = None]

\* the body of data_item_content_changed / __display_item_adapter_needs_update
changed_add(p, x) ==
    [p EXCEPT !.pending = @ \cup {x},
              !.tasks = IF p.kind = "list" THEN @ + 1 ELSE @,
              !.unobserved = @ \cup {x}]

\* changed = self.__changed...: the drain reads the pending state
changed_read(p) ==
    [p EXCEPT !.local = p.pending, !.unobserved = @ \ p.pending]

\* self.__changed... = set() / False
changed_reset(p) == [p EXCEPT !.pending = {}]

\* the rest of the drain, outside the mutex: act on what was read
changed_act(p, who) ==
    [p EXCEPT !.acted = p.local, !.local = {},
              !.actors = IF p.local # {} THEN @ \cup {who} ELSE @,
              !.tasks = IF p.kind = "list" THEN @ - 1 ELSE @]

\* the tasks of a LibraryItemController
Tasks == {"update_count", "inserted", "removed"}

\* data items a binding holds and tasks a queue holds
MaxItems == 2
MaxQueue == 3

\* a LibraryItemController whose constructor has not run, on a binding of n items
NewLibraryItemController(n) ==
    [ kind |-> "library", phase |-> "new", items |-> n, listening |-> FALSE,
      queue |-> <<>>, count |-> 0 ]

\* queue_task
queue_task(p, task) == [p EXCEPT !.queue = Append(@, task)]

\* the constructor up to the registration of the inserter and the remover
register(p) == [p EXCEPT !.count = 0, !.listening = TRUE, !.phase = "registered"]

\* the end of the constructor: self.queue_task(update_count)
queue_update_count(p) == [queue_task(p, "update_count") EXCEPT !.phase = "made"]

\* the binding gains a data item and calls its inserters
binding_inserted(p) ==
    LET q == [p EXCEPT !.items = @ + 1]
    IN  IF p.listening THEN queue_task(q, "inserted") ELSE q

\* the binding loses a data item and calls its removers
binding_removed(p) ==
    LET q == [p EXCEPT !.items = @ - 1]
    IN  IF p.listening THEN queue_task(q, "removed") ELSE q

\* one queued task: update_count, data_item_inserted or data_item_removed
perform_task(p, task) ==
    CASE task = "update_count" -> [p EXCEPT !.count = p.items]
      [] task = "inserted" -> [p EXCEPT !.count = @ + 1]
      [] task = "removed" -> [p EXCEPT !.count = @ - 1]

RECURSIVE perform_from(_, _)
perform_from(p, tasks) ==
    IF tasks = <<>> THEN p
    ELSE perform_from(perform_task(p, Head(tasks)), Tail(tasks))

\* periodic: the task queue performs its tasks in the order they were put
library_periodic(p) == perform_from([p EXCEPT !.queue = <<>>], p.queue)

\* ------------------------------------------------------------------ state
VARIABLES
    comps,          \* CompIds -> Computation
    data_items,     \* Project.data_items, uuids in order
    computations,   \* Project.computations, uuids in order
    lastOp,         \* the operation that produced this state
    arg,            \* its input
    raised,         \* the exception it raised, or None
    ret,            \* what evaluate returned
    h1,             \* observation of the state the last operation started in
    h2,             \* observation of the state a bind; unbind; bind started in
    data_structures,\* Project.data_structures, uuids in order
    container,      \* the Project is held by a container (document model)
    storage,        \* data items the storage system can restore
    log,            \* the UndeleteLog of the last cascading delete
    undeleted,      \* records undelete was invoked on by the last undelete_all
    display_items,  \* Project.display_items, uuids in order
    connections,    \* Project.connections, uuids in order
    log_closed,     \* the UndeleteLog's list of records is None
    structure,      \* a DataStructure: its properties and reference proxies
    panel           \* a controller of the data panel and the threads that use it

pvars == <<data_structures, container, storage, log, undeleted,
           display_items, connections, log_closed, structure, panel>>

vars == <<comps, data_items, computations, lastOp, arg, raised, ret, h1, h2,
          data_structures, container, storage, log, undeleted,
          display_items, connections, log_closed, structure, panel>>

present == Range(data_items) \cup Range(data_structures)

\* bound items of every slot, variables first
SlotItems(c) ==
    [i \in 1..Len(c.variables) |-> c.variables[i].bound_item]
        \o [j \in 1..Len(c.results) |-> c.results[j].bound_item]

\* live listeners of the Computation on every slot, variables first
SlotListeners(c) ==
    [i \in 1..Len(c.variables) |-> c.variables[i].nchg + c.variables[i].nreb]
        \o [j \in 1..Len(c.results) |-> c.results[j].nreb]

Observe(c) ==
    [ op |-> lastOp,
      raised |-> raised,
      needs_update |-> c.needs_update,
      count |-> c.count,
      time |-> c.time,
      calls |-> c.calls,
      resolved |-> is_resolved(c),
      is_bound |-> c.is_bound,
      ever_bound |-> c.ever_bound,
      items |-> SlotItems(c),
      listeners |-> SlotListeners(c) ]

NoObservation ==
    [ op |-> None, raised |-> None, needs_update |-> FALSE, count |-> 0,
      time |-> 0, calls |-> 0, resolved |-> "true", is_bound |-> FALSE,
      ever_bound |-> FALSE, items |-> <<>>, listeners |-> <<>> ]

NoCycle == [on |-> FALSE, items |-> <<>>]

\* bookkeeping of one operation on Computation k
Done(k, op, a, res, r, o1, o2) ==
    /\ comps' = [comps EXCEPT ![k] = [res.c EXCEPT !.mutated = @ - comps[k].mutated,
                                             !.seen = <<>>, !.rebinds = 0]]
    /\ lastOp' = op
    /\ arg' = a
    /\ raised' = res.exc
    /\ ret' = r
    /\ h1' = o1
    /\ h2' = o2
    /\ UNCHANGED pvars

\* the Computation and the data item the operations of Spec act on
Subject == "K1"

Target == "D1"

RECURSIVE WithVariables(_, _)
WithVariables(c, kinds) ==
    IF kinds = <<>> THEN [c EXCEPT !.seen = <<>>]
    ELSE WithVariables(insert_variable(c, NewVariable(Head(kinds), Head(kinds), Target), {}).c,
                       Tail(kinds))

RECURSIVE WithResults(_, _)
WithResults(c, kinds) ==
    IF kinds = <<>> THEN [c EXCEPT !.seen = <<>>]
    ELSE WithResults(create_output_item(c, NewResult(Head(kinds), Target), {}).c,
                     Tail(kinds))

\* sequences of distinct elements of S, no longer than n
DistinctSeqs(S, n) ==
    {q \in UNION {[1..m -> S] : m \in 0..n} :
        \A i, j \in 1..Len(q) : i # j => q[i] # q[j]}

\* a Computation built with create_variable, create_input_item and
\* create_output_item before it is added to the Project
Init ==
    /\ \E e \in BOOLEAN, pid \in ProcessingIds,
          vk \in DistinctSeqs(VarKinds, MaxVars),
          rk \in DistinctSeqs(ResultKinds, MaxResults) :
          comps = [k \in CompIds |->
                     IF k = Subject
                     THEN WithResults(WithVariables(NewComputation(e, pid), vk), rk)
                     ELSE NewComputation(FALSE, None)]
    /\ data_items = <<>>
    /\ computations = <<>>
    /\ lastOp = None
    /\ arg = None
    /\ raised = None
    /\ ret = NoRet
    /\ h1 = NoObservation
    /\ h2 = NoCycle
    /\ data_structures = <<>>
    /\ container = FALSE
    /\ storage = {}
    /\ log = <<>>
    /\ undeleted = <<>>
    /\ display_items = <<>>
    /\ connections = <<>>
    /\ log_closed = FALSE
    /\ structure = NewStructure
    /\ panel = NoPanel

\* Project.append_computation
AppendComputation(k) ==
    /\ k \notin Range(computations)
    /\ ~comps[k].attached
    /\ computations' = Append(computations, k)
    /\ Done(k, "append_computation", None, Ok([comps[k] EXCEPT !.attached = TRUE]),
            NoRet, NoObservation, NoCycle)
    /\ UNCHANGED data_items

\* Computation.bind against the Project
Bind(k) ==
    /\ \A i \in 1..Len(comps[k].variables) :
          /\ comps[k].variables[i].nchg < MaxListeners
          /\ comps[k].variables[i].nreb < MaxListeners
    /\ \A j \in 1..Len(comps[k].results) : comps[k].results[j].nreb < MaxListeners
    /\ Done(k, "bind", None, bind(comps[k], present), NoRet, Observe(comps[k]),
            IF lastOp = "unbind" /\ raised = None /\ h1.op = "bind" /\ h1.raised = None
            THEN [on |-> TRUE, items |-> h1.items] ELSE NoCycle)
    /\ UNCHANGED <<data_items, computations>>

\* Computation.unbind
Unbind(k) ==
    /\ Done(k, "unbind", None, unbind(comps[k]), NoRet, Observe(comps[k]), NoCycle)
    /\ UNCHANGED <<data_items, computations>>

\* Computation.evaluate
Evaluate(k, outcome) ==
    /\ comps[k].needs_update => comps[k].count < MaxEvals
    /\ LET res == evaluate(comps[k], outcome) IN
       Done(k, "evaluate", outcome, res, res.ret, Observe(comps[k]), NoCycle)
    /\ UNCHANGED <<data_items, computations>>

\* Computation.mark_update
MarkUpdate(k) ==
    /\ Done(k, "mark_update", None, Ok(mark_update(comps[k])), NoRet,
            NoObservation, NoCycle)
    /\ UNCHANGED <<data_items, computations>>

\* Project.append_data_item
AppendDataItem(k, u) ==
    /\ u \notin present
    /\ data_items' = Append(data_items, u)
    /\ Done(k, "append_data_item", u, Ok(comps[k]), NoRet, NoObservation, NoCycle)
    /\ UNCHANGED computations

\* Project.remove_data_item: the item leaves the collection, then the
\* removal notification reaches the bound items that point at it
RemoveDataItem(k, u) ==
    /\ u \in present
    /\ data_items' = RemoveAt(data_items, IndexOf(data_items, u))
    /\ Done(k, "remove_data_item", u,
            target_removed(comps[k], u, present \ {u}), NoRet,
            Observe(comps[k]), NoCycle)
    /\ UNCHANGED computations

Next ==
    \/ AppendComputation(Subject)
    \/ Bind(Subject)
    \/ Unbind(Subject)
    \/ \E outcome \in {"ok", "raise"} : Evaluate(Subject, outcome)
    \/ MarkUpdate(Subject)
    \/ AppendDataItem(Subject, Target)
    \/ RemoveDataItem(Subject, Target)

Spec == Init /\ [][Next]_vars


\* ------------------------------------------------- notifications
\* the Computation holds no listener and no bound item: unbind has returned
\* and bind has not been called since
Unbound(c) ==
    /\ c.ever_bound /\ ~c.is_bound
    /\ c.vchg = {} /\ c.vreb = {} /\ c.rreb = {}
    /\ NoSlotBound(c)

WasUnbound(c) == [on |-> Unbound(c), items |-> <<>>]

\* a Computation with one Variable and its Outputs, as read back into the
\* Project: nothing is bound and needs_update is not set
EventInit ==
    /\ \E vk \in VarKinds, rk \in DistinctSeqs(ResultKinds, MaxResults) :
          comps = [k \in CompIds |->
                     IF k = Subject
                     THEN [WithResults(WithVariables(NewComputation(FALSE, "reg"), <<vk>>), rk)
                              EXCEPT !.attached = TRUE, !.needs_update = FALSE,
                                     !.mutated = 0]
                     ELSE NewComputation(FALSE, None)]
    /\ data_items = <<>>
    /\ computations = <<Subject>>
    /\ lastOp = None
    /\ arg = None
    /\ raised = None
    /\ ret = NoRet
    /\ h1 = NoObservation
    /\ h2 = NoCycle
    /\ data_structures = <<>>
    /\ container = FALSE
    /\ storage = {}
    /\ log = <<>>
    /\ undeleted = <<>>
    /\ display_items = <<>>
    /\ connections = <<>>
    /\ log_closed = FALSE
    /\ structure = NewStructure
    /\ panel = NoPanel

\* bookkeeping of one notification or property change on Computation k
Notified(k, op, a, res) ==
    /\ Done(k, op, a, res, NoRet,
            [Observe(comps[k]) EXCEPT !.op = None, !.raised = None],
            WasUnbound(comps[k]))
    /\ UNCHANGED <<data_items, computations>>

\* assignment to the value of a value-typed Variable
SetValue(k, i, val) ==
    /\ comps[k].variables[i].value_type # None
    /\ val # comps[k].variables[i].value
    /\ Notified(k, "set_value", comps[k].variables[i].uuid,
                Ok(set_value(comps[k], i, val)))

\* Computation.set_input_item
SetInputItem(k, i, u) ==
    /\ get_object_specifier(u) # comps[k].variables[i].specifier
    /\ Notified(k, "set_input_item", comps[k].variables[i].uuid,
                set_input_item(comps[k], comps[k].variables[i].name, u, present))

\* assignment to ComputationVariable.variable_type
SetVariableType(k, i, t) ==
    /\ Notified(k, "set_variable_type", comps[k].variables[i].uuid,
                set_variable_type(comps[k], i, t, present))

\* ComputationVariable.restore_properties
RestoreProperties(k, i, val, sp) ==
    /\ val # comps[k].variables[i].value
    /\ sp # comps[k].variables[i].specifier
    /\ Notified(k, "restore_properties", comps[k].variables[i].uuid,
                restore_properties(comps[k], i, val, sp, present))

\* the bound item of a Variable fires changed
BoundItemChanged(k, i) ==
    /\ comps[k].variables[i].bound_item # NoBound
    /\ Notified(k, "bound_item_changed", comps[k].variables[i].uuid,
                Ok(bound_item_changed(comps[k], i)))

\* the bound item of a Variable fires needs_rebind
BoundItemNeedsRebind(k, i) ==
    /\ comps[k].variables[i].bound_item.kind \in {"item", "list"}
    /\ Notified(k, "bound_item_needs_rebind", comps[k].variables[i].uuid,
                bound_item_needs_rebind(comps[k], i, present))

\* bound items the Computation held and discarded fire changed and
\* needs_rebind
DiscardedItemFires(k) ==
    /\ comps[k].ever_bound
    /\ Notified(k, "discarded_item_fires", None, discarded_fires(comps[k], present))

EventNext ==
    \/ Bind(Subject)
    \/ Unbind(Subject)
    \/ AppendDataItem(Subject, Target)
    \/ RemoveDataItem(Subject, Target)
    \/ \E val \in {None, "val"} : SetValue(Subject, 1, val)
    \/ SetInputItem(Subject, 1, Target)
    \/ \E t \in {"integral", "data_item"} : SetVariableType(Subject, 1, t)
    \/ \E val \in {None, "val"}, sp \in {NoSpec, get_object_specifier(Target)} :
          RestoreProperties(Subject, 1, val, sp)
    \/ BoundItemChanged(Subject, 1)
    \/ BoundItemNeedsRebind(Subject, 1)
    \/ DiscardedItemFires(Subject)

EventSpec == EventInit /\ [][EventNext]_vars

\* ---------------------------------------------------- Project and undo
MaxInputs == 1        \* input Variables of a Computation of the Project

VarId(i) == "v" \o ToString(i)

Reverse(q) == [i \in 1..Len(q) |-> q[Len(q) + 1 - i]]

IsPrefix(p, q) == Len(p) <= Len(q) /\ SubSeq(q, 1, Len(p)) = p

\* the entity a data structure was created for (DataStructure source)
ds_source(x) == "D1"

\* entities a bound item exposes to the dependency tracker
base_objects(b) ==
    IF b.kind = "item" THEN {b.target}
    ELSE IF b.kind = "list" THEN Range(b.items)
    ELSE {}

\* Computation.input_items
input_items(c) ==
    UNION {base_objects(c.variables[i].bound_item) : i \in 1..Len(c.variables)}

\* Computation.output_items
output_items(c) ==
    UNION {LET b == c.results[j].bound_item IN
           IF b.kind = "list" THEN Range(b.items)
           ELSE IF b.kind # None THEN {BoundValue(c, b)}
           ELSE {} : j \in 1..Len(c.results)}

\* uuids named by the Specifiers of a Computation's Variables and Outputs
specifier_targets(c) ==
    UNION {IF c.variables[i].has_objects THEN Range(c.variables[i].objects)
           ELSE IF c.variables[i].specifier # NoSpec THEN {c.variables[i].specifier.uuid}
           ELSE {} : i \in 1..Len(c.variables)}
    \cup
    UNION {IF c.results[j].has_specifiers THEN Range(c.results[j].specifiers)
           ELSE IF c.results[j].specifier # NoSpec THEN {c.results[j].specifier.uuid}
           ELSE {} : j \in 1..Len(c.results)}

\* the Project as a value: the fields a removal or a restore touches
ProjectState ==
    [ data_items |-> data_items,
      data_structures |-> data_structures,
      computations |-> computations,
      comps |-> comps,
      storage |-> storage,
      log |-> log,
      undeleted |-> undeleted,
      events |-> <<>>,
      value |-> None,
      exc |-> None ]

\* a new edit of the Project: the log of an earlier removal is replayed only
\* against the Project that removal left, so the edit lets go of it
Edited == [ProjectState EXCEPT !.log = <<>>, !.undeleted = <<>>]

Entities(ps) == Range(ps.data_items) \cup Range(ps.data_structures)

\* x is removed when y is: the dependency tracker's relation
DependsOn(ps, x, y) ==
    \/ /\ x \in Range(ps.computations)
       /\ y \in input_items(ps.comps[x]) \cup output_items(ps.comps[x])
    \/ /\ x \in Range(ps.data_structures)
       /\ ds_source(x) = y

RECURSIVE CascadeSet(_, _)
CascadeSet(ps, S) ==
    LET T == S \cup {x \in Range(ps.computations) \cup Range(ps.data_structures) :
                        \E y \in S : DependsOn(ps, x, y)}
    IN IF T = S THEN S ELSE CascadeSet(ps, T)

\* dependents first: computations, then data structures, then the target
CascadeOrder(ps, e) ==
    LET S == CascadeSet(ps, {e}) \ {e} IN
    FilterSeq(ps.computations, S) \o FilterSeq(ps.data_structures, S)
        \o FilterSeq(ps.data_items, S) \o <<e>>

\* what an undelete record keeps of a Computation: its persistent properties
Serialized(c) ==
    [c EXCEPT !.variables = [i \in 1..Len(c.variables) |->
                               [c.variables[i] EXCEPT !.bound_item = NoBound,
                                                      !.nchg = 0, !.nreb = 0,
                                                      !.open = 0, !.blisten = 0]],
              !.results = [j \in 1..Len(c.results) |->
                               [c.results[j] EXCEPT !.bound_item = NoBound, !.nreb = 0,
                                                    !.stale = {}]],
              !.vchg = {}, !.vreb = {}, !.rreb = {},
              !.needs_update = FALSE, !.count = 0, !.time = 0, !.calls = 0,
              !.mutated = 0, !.seen = <<>>, !.rebinds = 0,
              !.attached = FALSE, !.ctx = FALSE, !.is_bound = FALSE,
              !.ever_bound = FALSE]

NoState == NewComputation(FALSE, None)

\* the removal notification, delivered to every Computation of the Project
RECURSIVE NotifyRemoved(_, _, _)
NotifyRemoved(ps, ks, u) ==
    IF ks = <<>> THEN ps
    ELSE LET k == Head(ks)
             r == target_removed(ps.comps[k], u, Entities(ps))
             ps1 == [ps EXCEPT !.comps[k] = r.c,
                               !.exc = IF @ = None THEN r.exc ELSE @]
         IN NotifyRemoved(ps1, Tail(ks), u)

\* Project.remove_computation / remove_data_structure / remove_data_item
remove_item(ps, x) ==
    IF x \in Range(ps.computations)
    THEN [ps EXCEPT !.computations = RemoveAt(@, IndexOf(@, x)),
                    !.comps[x] = NoState]
    ELSE IF x \in Range(ps.data_structures)
    THEN NotifyRemoved([ps EXCEPT !.data_structures = RemoveAt(@, IndexOf(@, x))],
                       ps.computations, x)
    ELSE NotifyRemoved([ps EXCEPT !.data_items = RemoveAt(@, IndexOf(@, x)),
                                  !.storage = @ \cup {x}],
                       ps.computations, x)

\* the undelete record of entity x, made just before x is removed
UndeleteRecord(ps, x) ==
    IF x \in Range(ps.computations)
    THEN [type |-> "computation", uuid |-> x, index |-> IndexOf(ps.computations, x),
          state |-> Serialized(ps.comps[x])]
    ELSE IF x \in Range(ps.data_structures)
    THEN [type |-> "data_structure", uuid |-> x,
          index |-> IndexOf(ps.data_structures, x), state |-> NoState]
    ELSE [type |-> "data_item", uuid |-> x, index |-> IndexOf(ps.data_items, x),
          state |-> NoState]

\* UndeleteLog.append
log_append(items, record) == Append(items, record)

\* the container's remove_model_item: remove the entities in order, one
\* undelete record per removed entity
RECURSIVE CascadeRemove(_, _)
CascadeRemove(ps, xs) ==
    IF xs = <<>> \/ ps.exc # None THEN ps
    ELSE LET x == Head(xs)
             ps1 == [ps EXCEPT !.log = log_append(@, UndeleteRecord(ps, x))]
         IN CascadeRemove(remove_item(ps1, x), Tail(xs))

\* remove_model_item that never hands the removal to the container
remove_model_item_direct(ps, has_container, e) ==
    remove_item([ps EXCEPT !.log = <<>>], e)

\* Project.remove_model_item
remove_model_item(ps, has_container, e) ==
    IF has_container
    THEN CascadeRemove([ps EXCEPT !.log = <<>>], CascadeOrder(ps, e))
    ELSE remove_item([ps EXCEPT !.log = <<>>], e)

\* ------------------------------------------------------ lifecycle hooks
\* an entity as its hooks see it: the container reference is set, and
\* _about_to_be_removed
NewEntity == [container |-> FALSE, about_to_be_removed |-> FALSE]

\* a call or an event that an operation of the Project makes, with the
\* entity as it is at that moment
Event(ev, c, u, index, e) ==
    [ ev |-> ev, coll |-> c, item |-> u, index |-> index,
      container |-> e.container, removed |-> e.about_to_be_removed ]

\* about_to_be_inserted of the entity
about_to_be_inserted(e) ==
    IF e.container THEN [e |-> e, exc |-> "AssertionError"]
    ELSE [e |-> [e EXCEPT !.container = TRUE], exc |-> None]

\* about_to_be_removed that detaches the entity before it fires the event
about_to_be_removed_detaches_first(c, u, e) ==
    LET e1 == [e EXCEPT !.container = FALSE, !.about_to_be_removed = TRUE] IN
    [ e |-> e1, exc |-> None,
      events |-> <<Event("about_to_be_removed_event", c, u, None, e1),
                   Event("about_to_be_removed", c, u, None, e1)>> ]

\* Computation.about_to_be_removed, DataStructure.about_to_be_removed: the
\* event is fired, then the entity is marked and its container reference
\* cleared
about_to_be_removed(c, u, e) ==
    LET fired == <<Event("about_to_be_removed_event", c, u, None, e)>> IN
    IF e.about_to_be_removed
    THEN [e |-> e, exc |-> "AssertionError", events |-> fired]
    ELSE LET e1 == [e EXCEPT !.container = FALSE, !.about_to_be_removed = TRUE] IN
         [ e |-> e1, exc |-> None,
           events |-> Append(fired, Event("about_to_be_removed", c, u, None, e1)) ]

\* the entity of collection c with uuid u is a new object until it is
\* inserted and is discarded when it is removed
Inserted == [container |-> TRUE, about_to_be_removed |-> FALSE]

\* the insert callback that notifies before the entity's hook ran
item_inserted_notifies_first(st, c, before_index, u) ==
    LET r == about_to_be_inserted(NewEntity) IN
    [st EXCEPT !.events = @ \o <<Event("notify_insert_item", c, u, before_index, NewEntity),
                                 Event("about_to_be_inserted", c, u, None, r.e)>>]

\* Project.__data_item_inserted, __display_item_inserted,
\* __data_structure_inserted, __computation_inserted, __connection_inserted
item_inserted(st, c, before_index, u) ==
    LET r == about_to_be_inserted(NewEntity)
        st1 == [st EXCEPT !.events = Append(@, Event("about_to_be_inserted", c, u, None, r.e))]
        st2 == IF c = "computations" THEN [st1 EXCEPT !.comps[u].attached = TRUE]
               ELSE st1
    IN IF r.exc # None THEN [st1 EXCEPT !.exc = r.exc]
       ELSE [st2 EXCEPT !.events = Append(@, Event("notify_insert_item", c, u, before_index, r.e))]

\* Project.__data_item_removed, __display_item_removed,
\* __data_structure_removed, __computation_removed, __connection_removed
item_removed(st, c, index, u) ==
    LET r == about_to_be_removed(c, u, Inserted)
        st1 == [st EXCEPT !.events = @ \o r.events]
    IN IF r.exc # None THEN [st1 EXCEPT !.exc = r.exc]
       ELSE [st1 EXCEPT !.events = Append(@, Event("notify_remove_item", c, u, index, r.e))]

\* append_item, load_item: the item goes to the end of collection c and the
\* insert callback of the relationship runs
insert_item(st, c, u) ==
    item_inserted([st EXCEPT ![c] = Append(@, u)], c, Len(st[c]), u)

\* restore_data_item that takes the item out of storage and drops it
restore_data_item_drops(ps, u) ==
    [ps EXCEPT !.storage = @ \ {u}]

\* Project.restore_data_item
restore_data_item(ps, u) ==
    IF u \notin ps.storage THEN ps
    ELSE IF u \in Range(ps.data_items) THEN [ps EXCEPT !.exc = "AssertionError"]
    ELSE [insert_item(ps, "data_items", u) EXCEPT !.storage = @ \ {u}, !.value = u]

InsertAt(q, i, x) ==
    LET n == IF i > Len(q) + 1 THEN Len(q) + 1 ELSE i IN
    SubSeq(q, 1, n - 1) \o <<x>> \o SubSeq(q, n, Len(q))

\* UndeleteBase.undelete of one record
undelete(ps, record) ==
    LET ps0 == [ps EXCEPT !.undeleted = Append(@, record.uuid)] IN
    IF record.type = "data_item" THEN restore_data_item(ps0, record.uuid)
    ELSE IF record.type = "data_structure"
    THEN IF record.uuid \in Range(ps0.data_structures)
         THEN [ps0 EXCEPT !.exc = "AssertionError"]
         ELSE [ps0 EXCEPT !.data_structures = InsertAt(@, record.index, record.uuid)]
    ELSE IF record.uuid \in Range(ps0.computations)
         THEN [ps0 EXCEPT !.exc = "AssertionError"]
         ELSE LET rb == bind([record.state EXCEPT !.attached = TRUE], Entities(ps0)) IN
              [ps0 EXCEPT !.computations = InsertAt(@, record.index, record.uuid),
                          !.comps[record.uuid] = rb.c,
                          !.exc = rb.exc]

RECURSIVE UndeleteEach(_, _)
UndeleteEach(ps, records) ==
    IF records = <<>> \/ ps.exc # None THEN ps
    ELSE UndeleteEach(undelete(ps, Head(records)), Tail(records))

\* undelete_all that replays the records in the order they were appended
undelete_order_forward(items) == items

\* UndeleteLog.undelete_all: the entries in the order undelete is invoked
undelete_order(items) == Reverse(items)

\* UndeleteLog.undelete_all
undelete_all(ps) ==
    UndeleteEach([ps EXCEPT !.undeleted = <<>>], undelete_order(ps.log))

ObserveProject ==
    [ container |-> container,
      data_items |-> data_items,
      data_structures |-> data_structures,
      computations |-> computations,
      targets |-> [k \in CompIds |-> specifier_targets(comps[k])],
      resolved |-> [k \in CompIds |-> is_resolved(comps[k])],
      items |-> [k \in CompIds |-> SlotItems(comps[k])] ]

NoProjectObservation ==
    [ container |-> FALSE, data_items |-> <<>>,
      data_structures |-> <<>>, computations |-> <<>>,
      targets |-> [k \in CompIds |-> {}],
      resolved |-> [k \in CompIds |-> "true"],
      items |-> [k \in CompIds |-> <<>>] ]

NoDelete == [on |-> FALSE, before |-> NoProjectObservation]

\* a Project, attached to its container or not, with nothing in it
ProjectInit ==
    /\ comps = [k \in CompIds |-> NoState]
    /\ data_items = <<>>
    /\ data_structures = <<>>
    /\ computations = <<>>
    /\ container \in BOOLEAN
    /\ storage = {}
    /\ log = <<>>
    /\ undeleted = <<>>
    /\ display_items = <<>>
    /\ connections = <<>>
    /\ log_closed = FALSE
    /\ structure = NewStructure
    /\ panel = NoPanel
    /\ lastOp = None
    /\ arg = None
    /\ raised = None
    /\ ret = NoRet
    /\ h1 = NoProjectObservation
    /\ h2 = NoDelete

\* bookkeeping of one operation on the Project
ProjectDone(op, a, ps, o1, o2) ==
    /\ data_items' = ps.data_items
    /\ data_structures' = ps.data_structures
    /\ computations' = ps.computations
    /\ comps' = ps.comps
    /\ storage' = ps.storage
    /\ log' = ps.log
    /\ undeleted' = ps.undeleted
    /\ raised' = ps.exc
    /\ lastOp' = op
    /\ arg' = a
    /\ h1' = o1
    /\ h2' = o2
    /\ UNCHANGED <<ret, container, display_items, connections, log_closed,
                   structure, panel>>

LoggedIds == {log[i].uuid : i \in 1..Len(log)}

\* Project.append_data_item with a new data item
ProjectAppendDataItem(u) ==
    /\ u \notin Range(data_items) \cup storage \cup LoggedIds
    /\ ProjectDone("append_data_item", u,
                   [Edited EXCEPT !.data_items = Append(@, u)],
                   NoProjectObservation, NoDelete)

\* Project.append_data_structure with a new data structure
ProjectAppendDataStructure(x) ==
    /\ x \notin Range(data_structures) \cup LoggedIds
    /\ ds_source(x) \in Range(data_items)
    /\ ProjectDone("append_data_structure", x,
                   [Edited EXCEPT !.data_structures = Append(@, x)],
                   NoProjectObservation, NoDelete)

\* a Computation over entities of the Project
BuiltComputation(ins, out) ==
    LET RECURSIVE add(_, _)
        add(c, i) ==
            IF i > Len(ins) THEN c
            ELSE add(insert_variable(c, NewVariable(VarId(i), "a", ins[i]), {}).c, i + 1)
        c1 == add(NewComputation(TRUE, "reg"), 1)
        c2 == IF out = None THEN c1
              ELSE create_output_item(c1, NewResult("r", out), {}).c
    IN [c2 EXCEPT !.seen = <<>>]

\* Project.append_computation with a new Computation, which is then bound
ProjectAppendComputation(k, ins, out) ==
    /\ k \notin Range(computations) \cup LoggedIds
    /\ k # Subject => Subject \in Range(computations) \cup LoggedIds
    /\ out \notin Range(ins)
    /\ LET rb == bind([BuiltComputation(ins, out) EXCEPT !.attached = TRUE], present) IN
       ProjectDone("append_computation", k,
                   [Edited EXCEPT !.computations = Append(@, k),
                                        !.comps[k] = rb.c,
                                        !.exc = rb.exc],
                   NoProjectObservation, NoDelete)

\* Project.remove_model_item
RemoveModelItem(e) ==
    /\ e \in present \cup Range(computations)
    /\ ProjectDone("remove_model_item", e,
                   remove_model_item(ProjectState, container, e),
                   ObserveProject, NoDelete)

\* UndeleteLog.undelete_all
UndeleteAll ==
    /\ log # <<>>
    /\ ProjectDone("undelete_all", None, undelete_all(ProjectState),
                   NoProjectObservation,
                   IF lastOp = "remove_model_item" /\ raised = None /\ h1.container
                   THEN [on |-> TRUE, before |-> h1] ELSE NoDelete)

ProjectNext ==
    \/ \E u \in DataItemIds : ProjectAppendDataItem(u)
    \/ \E x \in DataStructureIds : ProjectAppendDataStructure(x)
    \/ \E k \in CompIds, ins \in DistinctSeqs(present, MaxInputs) \ {<<>>},
             out \in Range(data_items) \cup {None} :
          ProjectAppendComputation(k, ins, out)
    \/ \E e \in DataItemIds \cup DataStructureIds \cup CompIds : RemoveModelItem(e)
    \/ UndeleteAll

ProjectSpec == ProjectInit /\ [][ProjectNext]_vars

\* ------------------------------------------------ the Project's collections
DisplayItemIds == {"Y1"}
ConnectionIds == {"N1"}

Collections ==
    <<"data_items", "display_items", "data_structures", "computations",
      "connections">>

\* the uuids of the entities that go in collection c
IdsOf(c) ==
    IF c = "data_items" THEN DataItemIds
    ELSE IF c = "display_items" THEN DisplayItemIds
    ELSE IF c = "data_structures" THEN DataStructureIds
    ELSE IF c = "computations" THEN {Subject}
    ELSE ConnectionIds

StoreIds == UNION {IdsOf(c) : c \in Range(Collections)}

collection_of(u) == CHOOSE c \in Range(Collections) : u \in IdsOf(c)

AppendOp ==
    [ data_items |-> "append_data_item",
      display_items |-> "append_display_item",
      data_structures |-> "append_data_structure",
      computations |-> "append_computation",
      connections |-> "append_connection" ]

RemoveOp ==
    [ data_items |-> "remove_data_item",
      display_items |-> "remove_display_item",
      data_structures |-> "remove_data_structure",
      computations |-> "remove_computation",
      connections |-> "remove_connection" ]

\* versions read_project finds in the project properties
ProjectVersions == {None, "1", "2", "3"}

\* the five collections
StoreItems ==
    [ data_items |-> data_items,
      display_items |-> display_items,
      data_structures |-> data_structures,
      computations |-> computations,
      connections |-> connections ]

NoStoreItems == [c \in Range(Collections) |-> <<>>]

StoreState ==
    [ data_items |-> data_items,
      display_items |-> display_items,
      data_structures |-> data_structures,
      computations |-> computations,
      connections |-> connections,
      held |-> container,
      comps |-> comps,
      storage |-> storage,
      log |-> log,
      undeleted |-> undeleted,
      events |-> <<>>,
      value |-> None,
      exc |-> None ]

\* append_X without the assertion
append_item_unasserted(st, c, u) ==
    insert_item(st, c, u)

\* Project.append_data_item, append_display_item, append_data_structure,
\* append_computation, append_connection
append_item(st, c, u) ==
    IF u \in Range(st[c]) THEN [st EXCEPT !.exc = "AssertionError"]
    ELSE insert_item(st, c, u)

\* Project.remove_data_item, remove_display_item, remove_data_structure,
\* remove_computation, remove_connection; the storage system keeps a removed
\* data item for restore_item
store_remove_item(st, c, u) ==
    LET index == IndexOf(st[c], u) - 1
        st1 == item_removed([st EXCEPT ![c] = RemoveAt(@, index + 1)], c, index, u)
    IN IF c = "data_items" THEN [st1 EXCEPT !.storage = @ \cup {u}]
       ELSE IF c = "computations" THEN [st1 EXCEPT !.comps[u] = NoState]
       ELSE st1

\* one loop of read_project: every item of the list is loaded unless its uuid
\* is in the collection already; update_script of a loaded Computation needs
\* the Project's container
RECURSIVE load_items(_, _, _, _)
load_items(st, c, q, held) ==
    IF q = <<>> \/ st.exc # None THEN st
    ELSE IF Head(q) \in Range(st[c]) THEN load_items(st, c, Tail(q), held)
    ELSE LET st1 == insert_item(st, c, Head(q))
             st2 == IF c = "computations" /\ ~held
                    THEN [st1 EXCEPT !.exc = "AttributeError"]
                    ELSE st1
         IN load_items(st2, c, Tail(q), held)

\* the items the properties list for collection c
ListedIn(props, c) == SelectSeq(props, LAMBDA u : u \in IdsOf(c))

RECURSIVE load_collections(_, _, _, _)
load_collections(st, cs, props, held) ==
    IF cs = <<>> THEN st
    ELSE load_collections(load_items(st, Head(cs), ListedIn(props, Head(cs)), held),
                          Tail(cs), props, held)

\* Project.read_project
read_project(st, version, props, held) ==
    IF version # None /\ version \in {"3", "2"}
    THEN load_collections(st, Collections, props, held)
    ELSE st

\* one loop of Project.close: the call is made on every data item in turn
RECURSIVE close_each(_, _, _)
close_each(st, call, q) ==
    IF q = <<>> \/ st.exc # None THEN st
    ELSE LET u == Head(q)
             r == about_to_be_removed("data_items", u, Inserted)
             removed == [container |-> FALSE, about_to_be_removed |-> TRUE]
             st1 == IF call = "about_to_close"
                    THEN [st EXCEPT !.events = Append(@, Event(call, "data_items", u, None, Inserted))]
                    ELSE IF call = "about_to_be_removed"
                    THEN [st EXCEPT !.events = @ \o r.events, !.exc = r.exc]
                    ELSE [st EXCEPT !.events = Append(@, Event(call, "data_items", u, None, removed))]
         IN close_each(st1, call, Tail(q))

\* Project.close
project_close(st) ==
    LET st1 == close_each(st, "about_to_close", st.data_items)
        st2 == close_each(st1, "about_to_be_removed", st.data_items)
        st3 == close_each(st2, "close", st.data_items)
    IN IF st3.exc # None THEN st3 ELSE [st3 EXCEPT !.held = FALSE]

\* the properties read_project reads: the items of all collections, in the
\* order of the file, a uuid possibly more than once
StoredIds == {"D1", "Y1", "S1", "K1"}

StoredProperties == UNION {[1..m -> StoredIds] : m \in 0..MaxRead}

\* the properties list some uuid twice, or one the Project holds
Repeats(props) ==
    \/ \E i, j \in 1..Len(props) : i # j /\ props[i] = props[j]
    \/ \E i \in 1..Len(props) : props[i] \in Range(StoreItems[collection_of(props[i])])

\* a Project with nothing in it
StoreInit ==
    /\ comps = [k \in CompIds |-> NoState]
    /\ data_items = <<>>
    /\ display_items = <<>>
    /\ data_structures = <<>>
    /\ computations = <<>>
    /\ connections = <<>>
    /\ log_closed = FALSE
    /\ structure = NewStructure
    /\ panel = NoPanel
    /\ container \in BOOLEAN
    /\ storage = {}
    /\ log = <<>>
    /\ undeleted = <<>>
    /\ lastOp = None
    /\ arg = None
    /\ raised = None
    /\ ret = [value |-> None, events |-> <<>>]
    /\ h1 = NoStoreItems
    /\ h2 = FALSE

\* bookkeeping of one operation on the collections
StoreDone(op, a, st, o1, o2) ==
    /\ lastOp # "close"
    /\ data_items' = st.data_items
    /\ display_items' = st.display_items
    /\ data_structures' = st.data_structures
    /\ computations' = st.computations
    /\ connections' = st.connections
    /\ comps' = st.comps
    /\ storage' = st.storage
    /\ raised' = st.exc
    /\ lastOp' = op
    /\ arg' = a
    /\ h1' = o1
    /\ h2' = o2
    /\ ret' = [value |-> st.value, events |-> st.events]
    /\ container' = st.held
    /\ UNCHANGED <<log, undeleted, log_closed, structure, panel>>

\* Project.append_X with an entity of uuid u
StoreAppend(c, u) ==
    StoreDone(AppendOp[c], u, append_item(StoreState, c, u), StoreItems,
              u \in Range(StoreItems[c]))

\* Project.remove_X with an entity the collection holds
StoreRemove(c, u) ==
    /\ u \in Range(StoreItems[c])
    /\ StoreDone(RemoveOp[c], u, store_remove_item(StoreState, c, u),
                 StoreItems, FALSE)

\* Project.restore_data_item
StoreRestoreDataItem(u) ==
    StoreDone("restore_data_item", u, restore_data_item(StoreState, u),
              StoreItems,
              [stored |-> u \in storage, present |-> u \in Range(data_items)])

\* Project.read_project
StoreReadProject(version, props) ==
    StoreDone("read_project", None,
              read_project(StoreState, version, props, container),
              StoreItems, Repeats(props))

\* Project.close
StoreClose ==
    StoreDone("close", None, project_close(StoreState), StoreItems, FALSE)

StoreNext ==
    \/ \E c \in Range(Collections) : \E u \in IdsOf(c) : StoreAppend(c, u)
    \/ \E c \in Range(Collections) : \E u \in IdsOf(c) : StoreRemove(c, u)
    \/ \E u \in DataItemIds : StoreRestoreDataItem(u)
    \/ \E version \in ProjectVersions, props \in StoredProperties :
          StoreReadProject(version, props)
    \/ StoreClose

StoreSpec == StoreInit /\ [][StoreNext]_vars

\* the order in which _get_related_item goes through the collections
LookupOrder ==
    <<"data_items", "display_items", "connections", "data_structures",
      "computations">>

\* Project._get_related_item: the collection of the first entity with that
\* uuid, or None
RECURSIVE get_related_item_from(_, _, _)
get_related_item_from(st, cs, u) ==
    IF cs = <<>> THEN None
    ELSE IF u \in Range(st[Head(cs)]) THEN Head(cs)
    ELSE get_related_item_from(st, Tail(cs), u)

get_related_item(st, u) == get_related_item_from(st, LookupOrder, u)

\* Project._get_related_item
StoreLookup(u) ==
    StoreDone("_get_related_item", u,
              [StoreState EXCEPT !.value = get_related_item(StoreState, u)],
              StoreItems, FALSE)

\* one uuid, carried by entities of any of the five kinds
UuidNext ==
    \/ \E c \in Range(Collections) : StoreAppend(c, Subject)
    \/ \E c \in Range(Collections) : StoreRemove(c, Subject)
    \/ StoreRestoreDataItem(Subject)
    \/ StoreLookup(Subject)

UuidSpec == StoreInit /\ [][UuidNext]_vars

\* --------------------------------------------------------- the UndeleteLog
\* an undelete record: how often its undelete and its close were called
NewRecord(u) == [uuid |-> u, undeletes |-> 0, closes |-> 0]

RecordIds == DataItemIds \cup CompIds

\* the UndeleteLog as a value: none says that __items is None
LogState ==
    [ items |-> log, none |-> log_closed, undeleted |-> undeleted,
      exc |-> None ]

\* close that leaves the list of records in place
log_close_keeps_items(l) ==
    [l EXCEPT !.items = [i \in 1..Len(@) |-> [@[i] EXCEPT !.closes = @ + 1]]]

\* UndeleteLog.close
log_close(l) ==
    IF l.none THEN [l EXCEPT !.exc = "TypeError"]
    ELSE [l EXCEPT !.items = [i \in 1..Len(@) |-> [@[i] EXCEPT !.closes = @ + 1]],
                   !.none = TRUE]

\* UndeleteLog.append
log_append_record(l, record) ==
    IF l.none THEN [l EXCEPT !.exc = "AttributeError"]
    ELSE [l EXCEPT !.items = log_append(@, record)]

\* UndeleteLog.undelete_all, the records counting the calls of undelete
log_undelete_all(l) ==
    IF l.none THEN [l EXCEPT !.exc = "TypeError", !.undeleted = <<>>]
    ELSE [l EXCEPT !.items = [i \in 1..Len(@) |-> [@[i] EXCEPT !.undeletes = @ + 1]],
                   !.undeleted = [i \in 1..Len(l.items) |->
                                     undelete_order(l.items)[i].uuid]]

ObserveLog == [items |-> log, none |-> log_closed]

\* a new UndeleteLog
LogInit ==
    /\ comps = [k \in CompIds |-> NoState]
    /\ data_items = <<>>
    /\ display_items = <<>>
    /\ data_structures = <<>>
    /\ computations = <<>>
    /\ connections = <<>>
    /\ container = FALSE
    /\ storage = {}
    /\ log = <<>>
    /\ log_closed = FALSE
    /\ structure = NewStructure
    /\ panel = NoPanel
    /\ undeleted = <<>>
    /\ lastOp = None
    /\ arg = None
    /\ raised = None
    /\ ret = NoRet
    /\ h1 = [items |-> <<>>, none |-> FALSE]
    /\ h2 = FALSE

\* bookkeeping of one call on the UndeleteLog
LogDone(op, a, l) ==
    /\ log' = l.items
    /\ log_closed' = l.none
    /\ undeleted' = l.undeleted
    /\ raised' = l.exc
    /\ lastOp' = op
    /\ arg' = a
    /\ h1' = ObserveLog
    /\ UNCHANGED <<comps, data_items, display_items, data_structures,
                   computations, connections, container, storage, ret, h2,
                   structure, panel>>

\* UndeleteLog.append of a new record
LogAppend(u) ==
    /\ Len(log) < MaxLog
    /\ \A i \in 1..Len(log) : log[i].uuid # u
    /\ LogDone("append", u, log_append_record(LogState, NewRecord(u)))

\* UndeleteLog.undelete_all
LogUndeleteAll ==
    /\ \A i \in 1..Len(log) : log[i].undeletes < MaxReplays
    /\ LogDone("undelete_all", None, log_undelete_all(LogState))

\* UndeleteLog.close
LogClose ==
    LogDone("close", None, log_close(LogState))

LogNext ==
    \/ \E u \in RecordIds : LogAppend(u)
    \/ LogUndeleteAll
    \/ LogClose

LogSpec == LogInit /\ [][LogNext]_vars

\* ---------------------------------------------- operations of a DataStructure
\* a new DataStructure
StructInit == LogInit

\* bookkeeping of one call on the DataStructure
StructDone(op, a, d) ==
    /\ structure' = [d EXCEPT !.exc = None]
    /\ raised' = d.exc
    /\ lastOp' = op
    /\ arg' = a
    /\ UNCHANGED <<comps, data_items, display_items, data_structures,
                   computations, connections, container, storage, ret, h1,
                   h2, log, log_closed, undeleted, panel>>

SetPropertyValue(p, value) ==
    StructDone("set_property_value", p, set_property_value(structure, p, value))

RemovePropertyValue(p) ==
    StructDone("remove_property_value", p, remove_property_value(structure, p))

SetReferencedObject(p, item) ==
    StructDone("set_referenced_object", p, set_referenced_object(structure, p, item))

SetAttr(name, value) ==
    StructDone("setattr", name, setattr(structure, name, value))

ReadFromDict(props) ==
    StructDone("read_from_dict", None, read_from_dict(structure, props))

StructNext ==
    \/ \E p \in PropNames, value \in PropValues : SetPropertyValue(p, value)
    \/ \E p \in PropNames : RemovePropertyValue(p)
    \/ \E p \in PropNames, item \in ReferencedObjects \cup {None} :
          SetReferencedObject(p, item)
    \/ \E name \in PropNames, value \in PropValues : SetAttr(name, value)
    \/ \E props \in [PropNames -> PropValues \cup {Absent}] : ReadFromDict(props)

StructSpec == StructInit /\ [][StructNext]_vars

\* ------------------------------------------- resolution through the context
\* the specifiers the context is asked to resolve: none, one of each own
\* variable, of each data item, and one without a uuid
AskedSpecifiers ==
    {NoSpec, [type |-> "data_item", uuid |-> None]}
        \cup {[type |-> "variable", uuid |-> vk] : vk \in VarKinds}
        \cup {get_object_specifier(u) : u \in DataItemIds}

\* ComputationContext.resolve_object_specifier, called on the context that
\* bind made
Resolve(k, spec) ==
    /\ comps[k].ctx
    /\ Done(k, "resolve_object_specifier", spec, Ok(comps[k]),
            [bound |-> resolve_object_specifier(comps[k], spec, FALSE, <<>>, present)],
            NoObservation, NoCycle)
    /\ UNCHANGED <<data_items, computations>>

\* a Computation of the Project with variables and no outputs
ResolveInit ==
    /\ \E kinds \in DistinctSeqs(VarKinds, MaxVars) \ {<<>>} :
          comps = [k \in CompIds |->
                     IF k = Subject
                     THEN [WithVariables(NewComputation(FALSE, "reg"), kinds)
                              EXCEPT !.attached = TRUE, !.needs_update = FALSE,
                                     !.mutated = 0]
                     ELSE NewComputation(FALSE, None)]
    /\ data_items = <<>>
    /\ computations = <<Subject>>
    /\ lastOp = None
    /\ arg = None
    /\ raised = None
    /\ ret = NoRet
    /\ h1 = NoObservation
    /\ h2 = NoCycle
    /\ data_structures = <<>>
    /\ container = FALSE
    /\ storage = {}
    /\ log = <<>>
    /\ undeleted = <<>>
    /\ display_items = <<>>
    /\ connections = <<>>
    /\ log_closed = FALSE
    /\ structure = NewStructure
    /\ panel = NoPanel

ResolveNext ==
    \/ Bind(Subject)
    \/ AppendDataItem(Subject, Target)
    \/ RemoveDataItem(Subject, Target)
    \/ \E i \in 1..Len(comps[Subject].variables), val \in {None, "val"} :
          SetValue(Subject, i, val)
    \/ \E spec \in AskedSpecifiers : Resolve(Subject, spec)

ResolveSpec == ResolveInit /\ [][ResolveNext]_vars

\* ------------------------------------------------- edits of a Computation
\* a Computation with an expression, one Variable and its Outputs, added to
\* a Project that holds the second data item, and not bound yet
EditInit ==
    /\ \E text \in ExpressionTexts \cup {None}, vk \in {"a", "k"},
          rk \in DistinctSeqs(ResultKinds, MaxResults) :
          comps = [k \in CompIds |->
                     IF k = Subject
                     THEN [WithResults(WithVariables(NewExpression(text, "reg"), <<vk>>), rk)
                              EXCEPT !.attached = TRUE, !.mutated = 0]
                     ELSE NewComputation(FALSE, None)]
    /\ data_items = <<"D2">>
    /\ computations = <<Subject>>
    /\ lastOp = None
    /\ arg = None
    /\ raised = None
    /\ ret = NoRet
    /\ h1 = NoObservation
    /\ h2 = NoCycle
    /\ data_structures = <<>>
    /\ container = FALSE
    /\ storage = {}
    /\ log = <<>>
    /\ undeleted = <<>>
    /\ display_items = <<>>
    /\ connections = <<>>
    /\ log_closed = FALSE
    /\ structure = NewStructure
    /\ panel = NoPanel

\* bookkeeping of one edit of Computation k: what the listeners of
\* computation_mutated_event saw, the unbind-then-bind cycles, and what a
\* listener would have seen before the edit
Mutated(k, op, a, res, r) ==
    /\ Done(k, op, a, res, r, NoObservation,
            [seen |-> res.c.seen, rebinds |-> res.c.rebinds,
             before |-> Seen(comps[k])])
    /\ UNCHANGED <<data_items, computations>>

\* Computation.evaluate_with_target
EvaluateWithTarget(k, target, outcome) ==
    /\ comps[k].needs_update => comps[k].count < MaxEvals
    /\ LET res == evaluate_with_target(comps[k], target, outcome) IN
       Mutated(k, "evaluate_with_target", target, res, res.ret)

\* assignment to Computation.expression
SetExpression(k, value) ==
    Mutated(k, "set_expression", value, Ok(set_expression(comps[k], value)), NoRet)

\* Computation.mark_update, with what the listeners saw
MarkUpdateSeen(k) ==
    Mutated(k, "mark_update", None, Ok(mark_update(comps[k])), NoRet)

\* Computation.add_variable of a new Variable
InsertVariable(k, kind) ==
    /\ Len(comps[k].variables) < MaxVars
    /\ \A i \in 1..Len(comps[k].variables) : comps[k].variables[i].name # kind
    /\ Mutated(k, "insert_variable", kind,
               insert_variable(comps[k], NewVariable(kind, kind, Target), present),
               NoRet)

\* Computation.remove_variable
RemoveVariable(k, i) ==
    /\ i \in 1..Len(comps[k].variables)
    /\ Mutated(k, "remove_variable", comps[k].variables[i].uuid,
               remove_variable(comps[k], i), NoRet)

\* Computation._clear_referenced_object
ClearReferencedObject(k, name) ==
    /\ \E j \in 1..Len(comps[k].results) : comps[k].results[j].name = name
    /\ Mutated(k, "clear_referenced_object", name,
               clear_referenced_object(comps[k], name), NoRet)

\* Computation.set_input_item with an item the Variable does not specify yet
ReplaceInputItem(k, i, u) ==
    /\ i \in 1..Len(comps[k].variables)
    /\ get_object_specifier(u) # comps[k].variables[i].specifier
    /\ Mutated(k, "set_input_item", comps[k].variables[i].uuid,
               set_input_item(comps[k], comps[k].variables[i].name, u, present),
               NoRet)

\* assignment to ComputationVariable.secondary_specifier
SetSecondarySpecifier(k, i) ==
    /\ i \in 1..Len(comps[k].variables)
    /\ Mutated(k, "set_secondary_specifier", comps[k].variables[i].uuid,
               secondary_specifier_changed(comps[k], i, present), NoRet)

\* the Project binds the Computation it holds, once
BindOnce(k) ==
    /\ ~comps[k].ever_bound
    /\ Bind(k)

EditNext ==
    \/ BindOnce(Subject)
    \/ AppendDataItem(Subject, Target)
    \/ \E target \in {Target, None}, outcome \in {"ok", "raise"} :
          EvaluateWithTarget(Subject, target, outcome)
    \/ \E value \in ExpressionTexts : SetExpression(Subject, value)
    \/ MarkUpdateSeen(Subject)
    \/ \E kind \in {"a", "k"} : InsertVariable(Subject, kind)
    \/ \E i \in 1..MaxVars : RemoveVariable(Subject, i)
    \/ \E name \in ResultKinds : ClearReferencedObject(Subject, name)
    \/ \E i \in 1..MaxVars, u \in DataItemIds : ReplaceInputItem(Subject, i, u)
    \/ \E i \in 1..MaxVars : SetSecondarySpecifier(Subject, i)

EditSpec == EditInit /\ [][EditNext]_vars

\* ------------------------------------------- objects of a list Variable
MaxObjects == 2

\* the objects model changed to items and fires item_inserted or
\* item_removed: the listeners of ComputationVariable.__init__ fire
\* needs_rebind and then copy the items into object_specifiers, which fires
\* changed twice; a model that shares its list with the property changes both
objects_model_changed(c, i, items, in_project) ==
    LET v  == c.variables[i]
        c1 == [c EXCEPT !.variables[i].objects = items,
                        !.variables[i].object_specifiers =
                            IF v.shares THEN items ELSE @]
    IN IF ~v.olisten THEN [c |-> c1, exc |-> None, fires |-> 0]
       ELSE LET r == rebind_variable(c1, i, in_project) IN
            IF r.exc # None THEN [c |-> r.c, exc |-> r.exc, fires |-> 1]
            ELSE [c |-> changed_fires(
                          [r.c EXCEPT !.variables[i].object_specifiers = items], i, 2),
                  exc |-> None, fires |-> 1]

\* Computation._get_variable: index of the first Variable of that name, or 0
get_variable(c, name) ==
    IF \E i \in 1..Len(c.variables) : c.variables[i].name = name
    THEN CHOOSE i \in 1..Len(c.variables) :
            /\ c.variables[i].name = name
            /\ \A j \in 1..(i - 1) : c.variables[j].name # name
    ELSE 0

\* Computation.insert_item_into_objects, index counted from 1
insert_item_into_objects(c, name, index, u, in_project) ==
    LET i == get_variable(c, name) IN
    IF i = 0 \/ ~c.variables[i].has_objects
    THEN [c |-> c, exc |-> "AttributeError", fires |-> 0]
    ELSE objects_model_changed(c, i, InsertAt(c.variables[i].objects, index, u), in_project)

\* Computation.remove_item_from_objects, index counted from 1
remove_item_from_objects(c, name, index, in_project) ==
    LET i == get_variable(c, name) IN
    IF i = 0 \/ ~c.variables[i].has_objects
    THEN [c |-> c, exc |-> "AttributeError", fires |-> 0]
    ELSE IF index > Len(c.variables[i].objects)
    THEN [c |-> c, exc |-> "IndexError", fires |-> 0]
    ELSE objects_model_changed(c, i, RemoveAt(c.variables[i].objects, index), in_project)

\* a Variable made by the factory and ComputationVariable.read_from_dict:
\* no listeners on an objects model, and a new model over object_specifiers
\* when that list is not empty
variable_read_from_dict(v, shares) ==
    [v EXCEPT !.bound_item = NoBound, !.nchg = 0, !.nreb = 0, !.open = 0,
              !.blisten = 0,
              !.olisten = FALSE,
              !.has_objects = (v.object_specifiers # <<>>),
              !.objects = v.object_specifiers,
              !.shares = shares /\ v.object_specifiers # <<>>]

\* a Computation with one list-valued Variable made by create_input_item,
\* added to the Project and not bound yet
ObjectsInit ==
    /\ comps = [k \in CompIds |->
                  IF k = Subject
                  THEN [WithVariables(NewComputation(FALSE, "reg"), <<"l">>)
                           EXCEPT !.attached = TRUE, !.mutated = 0]
                  ELSE NewComputation(FALSE, None)]
    /\ data_items = <<>>
    /\ computations = <<Subject>>
    /\ lastOp = None
    /\ arg = None
    /\ raised = None
    /\ ret = NoRet
    /\ h1 = NoObservation
    /\ h2 = NoCycle
    /\ data_structures = <<>>
    /\ container = FALSE
    /\ storage = {}
    /\ log = <<>>
    /\ undeleted = <<>>
    /\ display_items = <<>>
    /\ connections = <<>>
    /\ log_closed = FALSE
    /\ structure = NewStructure
    /\ panel = NoPanel

\* bookkeeping of one change of the objects of a Variable of Computation k
Listed(k, op, a, res) ==
    /\ Done(k, op, a, res, NoRet, NoObservation,
            [fires |-> res.fires, rebinds |-> res.c.rebinds])
    /\ UNCHANGED <<data_items, computations>>

\* Computation.insert_item_into_objects
InsertItemIntoObjects(k, name, index, u) ==
    /\ \A i \in 1..Len(comps[k].variables) :
          Len(comps[k].variables[i].objects) < MaxObjects
    /\ Listed(k, "insert_item_into_objects", [index |-> index, item |-> u],
              insert_item_into_objects(comps[k], name, index, u, present))

\* Computation.remove_item_from_objects
RemoveItemFromObjects(k, name, index) ==
    /\ Listed(k, "remove_item_from_objects", [index |-> index, item |-> None],
              remove_item_from_objects(comps[k], name, index, present))

\* the Computation is written to storage and read back into the Project
ReloadComputation(k, shares) ==
    /\ lastOp # "reload"
    /\ Listed(k, "reload", None,
              [c |-> [Serialized(comps[k]) EXCEPT
                         !.variables = [i \in 1..Len(comps[k].variables) |->
                             variable_read_from_dict(comps[k].variables[i], shares)],
                         !.attached = TRUE],
               exc |-> None, fires |-> 0])

ObjectsNext ==
    \/ Bind(Subject)
    \/ AppendDataItem(Subject, Target)
    \/ \E index \in 1..(MaxObjects + 1), u \in DataItemIds :
          InsertItemIntoObjects(Subject, "l", index, u)
    \/ \E index \in 1..MaxObjects : RemoveItemFromObjects(Subject, "l", index)
    \/ \E shares \in BOOLEAN : ReloadComputation(Subject, shares)

ObjectsSpec == ObjectsInit /\ [][ObjectsNext]_vars

\* ------------------------------------------------- removal and close
\* Computation.close: the source proxy is closed and dropped before the
\* assertions run
computation_close(e) ==
    IF ~e.source_proxy THEN [e |-> e, exc |-> "AttributeError"]
    ELSE LET e1 == [e EXCEPT !.source_proxy = FALSE] IN
         IF ~e1.about_to_be_removed \/ e1.closed
         THEN [e |-> e1, exc |-> "AssertionError"]
         ELSE [e |-> [e1 EXCEPT !.closed = TRUE, !.container = FALSE], exc |-> None]

\* DataStructure.close: the proxies of the referenced objects are closed and
\* dropped as well
data_structure_close(e) ==
    IF ~e.source_proxy THEN [e |-> e, exc |-> "AttributeError"]
    ELSE computation_close([e EXCEPT !.proxies = [p \in PropNames |-> NoProxy]])

\* what the hooks read and write of an instance
Lifecycle(e) ==
    [ container |-> e.container, about_to_be_removed |-> e.about_to_be_removed,
      closed |-> e.closed, source_proxy |-> e.source_proxy ]

\* the instance of that collection: the Computation or the DataStructure
Instance(coll) == IF coll = "computations" THEN comps[Subject] ELSE structure

InstanceId(coll) == IF coll = "computations" THEN Subject ELSE "S1"

\* a Computation and a DataStructure as constructed
LifeInit == LogInit

\* bookkeeping of one hook call or close on the instance of collection coll
Lived(coll, op, e, exc, events) ==
    /\ comps' = IF coll = "computations" THEN [comps EXCEPT ![Subject] = e] ELSE comps
    /\ structure' = IF coll = "computations" THEN structure ELSE e
    /\ lastOp' = op
    /\ arg' = coll
    /\ raised' = exc
    /\ h1' = Lifecycle(Instance(coll))
    /\ h2' = events
    /\ UNCHANGED <<data_items, display_items, data_structures, computations,
                   connections, container, storage, ret, log, log_closed,
                   undeleted, panel>>

\* about_to_be_inserted of the instance
AboutToBeInserted(coll) ==
    /\ coll \in Range(Collections)
    /\ LET r == about_to_be_inserted(Instance(coll)) IN
       Lived(coll, "about_to_be_inserted", r.e, r.exc, <<>>)

\* about_to_be_removed of the instance
AboutToBeRemoved(coll) ==
    /\ coll \in Range(Collections)
    /\ LET r == about_to_be_removed(coll, InstanceId(coll), Instance(coll)) IN
       Lived(coll, "about_to_be_removed", r.e, r.exc, r.events)

\* close of the instance
Close(coll) ==
    /\ coll \in Range(Collections)
    /\ LET r == IF coll = "computations" THEN computation_close(Instance(coll))
                ELSE data_structure_close(Instance(coll))
       IN Lived(coll, "close", r.e, r.exc, <<>>)

LifeNext ==
    \/ \E coll \in {"computations", "data_structures"} : AboutToBeInserted(coll)
    \/ \E coll \in {"computations", "data_structures"} : AboutToBeRemoved(coll)
    \/ \E coll \in {"computations", "data_structures"} : Close(coll)
    \/ \E p \in PropNames : SetReferencedObject(p, Target)

LifeSpec == LifeInit /\ [][LifeNext]_vars

\* -------------------------------------------- changes pending in a panel
PanelInit ==
    /\ comps = [k \in CompIds |-> NewComputation(FALSE, None)]
    /\ data_items = <<>>
    /\ computations = <<>>
    /\ lastOp = None
    /\ arg = None
    /\ raised = None
    /\ ret = NoRet
    /\ h1 = NoObservation
    /\ h2 = NoCycle
    /\ data_structures = <<>>
    /\ container = FALSE
    /\ storage = {}
    /\ log = <<>>
    /\ undeleted = <<>>
    /\ display_items = <<>>
    /\ connections = <<>>
    /\ log_closed = FALSE
    /\ structure = NewStructure
    /\ \E kind \in ControllerKinds : panel = NewController(kind)

\* bookkeeping of one step of a thread in the controller
Stepped(op, a, p) ==
    /\ panel' = p
    /\ lastOp' = op
    /\ arg' = a
    /\ UNCHANGED <<comps, data_items, computations, raised, ret, h1, h2,
                   data_structures, container, storage, log, undeleted,
                   display_items, connections, log_closed, structure>>

\* a background thread reports a change of x and reaches `with mutex:`
NotifyEnter(x) ==
    /\ panel.notifier = "idle"
    /\ x \in Changeables(panel.kind)
    /\ panel.tasks < MaxTasks
    /\ LET p == acquire(panel, "notifier")
       IN  /\ p.mutex = "notifier"
           /\ Stepped("notify_enter", x, [p EXCEPT !.notifier = "in", !.item = x])

\* ... adds it to the pending state and schedules the update task
NotifyAdd ==
    /\ panel.notifier = "in"
    /\ Stepped("notify_add", panel.item,
               [changed_add(panel, panel.item) EXCEPT !.notifier = "added"])

\* ... and leaves the mutex
NotifyExit ==
    /\ panel.notifier = "added"
    /\ Stepped("notify_exit", panel.item,
               [release(panel) EXCEPT !.notifier = "idle", !.item = None])

\* the main thread starts a drain: periodic, or a scheduled update task
DrainEnter ==
    /\ panel.main = "idle"
    /\ panel.kind = "list" => panel.tasks > 0
    /\ LET p == acquire(panel, "main")
       IN  /\ p.mutex = "main"
           /\ Stepped("drain_enter", None, [p EXCEPT !.main = "in"])

DrainRead ==
    /\ panel.main = "in"
    /\ Stepped("drain_read", None, [changed_read(panel) EXCEPT !.main = "read"])

DrainReset ==
    /\ panel.main = "read"
    /\ Stepped("drain_reset", None, [changed_reset(panel) EXCEPT !.main = "reset"])

DrainExit ==
    /\ panel.main = "reset"
    /\ Stepped("drain_exit", None, [release(panel) EXCEPT !.main = "out"])

DrainAct ==
    /\ panel.main = "out"
    /\ Stepped("drain_act", None, [changed_act(panel, "main") EXCEPT !.main = "idle"])

PanelNext ==
    \/ \E x \in Changes : NotifyEnter(x)
    \/ NotifyAdd
    \/ NotifyExit
    \/ DrainEnter
    \/ DrainRead
    \/ DrainReset
    \/ DrainExit
    \/ DrainAct

PanelSpec == PanelInit /\ [][PanelNext]_vars

\* --------------------------------------- the count of a LibraryItemController
CountInit ==
    /\ comps = [k \in CompIds |-> NewComputation(FALSE, None)]
    /\ data_items = <<>>
    /\ computations = <<>>
    /\ lastOp = None
    /\ arg = None
    /\ raised = None
    /\ ret = NoRet
    /\ h1 = NoObservation
    /\ h2 = NoCycle
    /\ data_structures = <<>>
    /\ container = FALSE
    /\ storage = {}
    /\ log = <<>>
    /\ undeleted = <<>>
    /\ display_items = <<>>
    /\ connections = <<>>
    /\ log_closed = FALSE
    /\ structure = NewStructure
    /\ \E n \in 0..MaxItems : panel = NewLibraryItemController(n)

\* the constructor registers with the binding
ConstructRegister ==
    /\ panel.phase = "new"
    /\ Stepped("register", None, register(panel))

\* the constructor queues update_count and returns
ConstructQueue ==
    /\ panel.phase = "registered"
    /\ Stepped("construct", None, queue_update_count(panel))

\* a data item enters the binding
BindingInsert ==
    /\ panel.items < MaxItems
    /\ Len(panel.queue) < MaxQueue
    /\ Stepped("binding_insert", panel.phase, binding_inserted(panel))

\* a data item leaves the binding
BindingRemove ==
    /\ panel.items > 0
    /\ Len(panel.queue) < MaxQueue
    /\ Stepped("binding_remove", panel.phase, binding_removed(panel))

\* periodic of the constructed controller
LibraryPeriodic ==
    /\ panel.phase = "made"
    /\ Stepped("periodic", panel.queue, library_periodic(panel))

CountNext ==
    \/ ConstructRegister
    \/ ConstructQueue
    \/ BindingInsert
    \/ BindingRemove
    \/ LibraryPeriodic

CountSpec == CountInit /\ [][CountNext]_vars

\* ----------------------------------------------------------------- claims
Subj == comps[Subject]

AllSlotsNull(c) == \A n \in 1..Len(SlotItems(c)) : SlotItems(c)[n] = NoBound

\* C1: a second evaluate with nothing in between that sets needs_update does
\* not invoke the evaluator again, returns no result and no error, and leaves
\* needs_update false and the evaluation counter and timestamp unchanged
C1_EvaluateTwice ==
    (lastOp = "evaluate" /\ h1.op = "evaluate") =>
        /\ raised = None
        /\ ret = NoRet
        /\ ~Subj.needs_update
        /\ Subj.calls = h1.calls
        /\ Subj.count = h1.count
        /\ Subj.time = h1.time

C1_Witness ==
    /\ lastOp = "evaluate" /\ h1.op = "evaluate"
    /\ Subj.calls = 1 /\ Subj.count = 1

\* C2: evaluate never raises, and with needs_update set and the inputs
\* resolved a raising evaluator or a processing_id without implementation
\* (an unset one included) gives an error text and no compute object
C2_EvaluateNeverRaises ==
    lastOp = "evaluate" =>
        /\ raised = None
        /\ (/\ h1.needs_update
            /\ h1.resolved = "true"
            /\ (arg = "raise" \/ Subj.processing_id # "reg"))
           => (ret.error_text # None /\ ret.compute_obj = None)

\* C3: when is_resolved is false and needs_update is set, evaluate does not
\* invoke the evaluator and a call that returns yields 'Missing parameters.'
C3_UnresolvedIsSkipped ==
    (lastOp = "evaluate" /\ h1.needs_update /\ h1.resolved = "false") =>
        /\ Subj.calls = h1.calls
        /\ raised = None => ret.error_text = "Missing parameters."

\* the variable whose bound item was b referenced entity u
ReferencedBy(b, u) ==
    \/ b.kind = "item" /\ b.target = u
    \/ b.kind = "list" /\ u \in Range(b.items)

\* C4 as stated: removing an entity referenced by any Variable of a bound,
\* resolved Computation leaves that Variable unbound and is_resolved false
C4_AnyVariable ==
    (lastOp = "remove_data_item" /\ h1.is_bound /\ h1.resolved = "true") =>
        \A i \in 1..Len(Subj.variables) :
            ReferencedBy(h1.items[i], arg) =>
                (Subj.variables[i].bound_item = NoBound /\ is_resolved(Subj) = "false")

\* C4: removing the entity the Specifier of a Variable of a bound, resolved
\* Computation points at leaves that Variable with a null bound item and the
\* Computation with is_resolved false
C4_SpecifierVariable ==
    (lastOp = "remove_data_item" /\ h1.is_bound /\ h1.resolved = "true") =>
        \A i \in 1..Len(Subj.variables) :
            (h1.items[i].kind = "item" /\ h1.items[i].target = arg) =>
                (Subj.variables[i].bound_item = NoBound /\ is_resolved(Subj) = "false")

C4_Witness ==
    /\ lastOp = "remove_data_item" /\ h1.is_bound /\ h1.resolved = "true"
    /\ \E i \in 1..Len(Subj.variables) :
          /\ h1.items[i].kind = "item" /\ h1.items[i].target = arg
          /\ Subj.variables[i].bound_item = NoBound

\* C8: unbind on a Computation that was never bound, or that has just been
\* unbound, raises nothing and leaves every slot's bound item null
C8_UnbindNeverFails ==
    (lastOp = "unbind" /\ (~h1.ever_bound \/ (h1.op = "unbind" /\ h1.raised = None))) =>
        (raised = None /\ AllSlotsNull(Subj))

\* C9: bind on a Computation that is already bound fails an assertion before
\* any slot is bound again and before any listener is registered
C9_DoubleBindAsserts ==
    (lastOp = "bind" /\ h1.is_bound) =>
        /\ raised = "AssertionError"
        /\ SlotItems(Subj) = h1.items
        /\ SlotListeners(Subj) = h1.listeners

\* C10: bind; unbind; bind in an unchanged context leaves every Variable and
\* Output with a bound item for the same target as after the first bind
C10_RebindIdempotent ==
    (lastOp = "bind" /\ h2.on) =>
        (raised = None /\ SlotItems(Subj) = h2.items)

C10_Witness ==
    /\ lastOp = "bind" /\ h2.on /\ raised = None
    /\ \E n \in 1..Len(h2.items) : h2.items[n].kind = "item"
    /\ \E n \in 1..Len(h2.items) : h2.items[n].kind = "variable"

\* a cascading remove_model_item has just returned
Cascaded == lastOp = "remove_model_item" /\ h1.container /\ raised = None

Undone == lastOp = "undelete_all" /\ h2.on

\* C6: undelete_all right after a cascading delete returns normally and
\* leaves the Project with the entities it had before the delete, and every
\* Computation has the is_resolved value and the bound targets it had before
C6_UndoSymmetry ==
    Undone =>
        /\ raised = None
        /\ Range(data_items) = Range(h2.before.data_items)
        /\ Range(data_structures) = Range(h2.before.data_structures)
        /\ Range(computations) = Range(h2.before.computations)
        /\ Len(data_items) = Len(h2.before.data_items)
        /\ Len(data_structures) = Len(h2.before.data_structures)
        /\ Len(computations) = Len(h2.before.computations)
        /\ \A k \in Range(computations) :
              /\ is_resolved(comps[k]) = h2.before.resolved[k]
              /\ SlotItems(comps[k]) = h2.before.items[k]
              /\ specifier_targets(comps[k]) = h2.before.targets[k]

C6_Witness ==
    /\ Undone
    /\ \E i \in 1..Len(log) : log[i].type = "data_item"
    /\ \E i \in 1..Len(log) :
          /\ log[i].type = "computation"
          /\ log[i].uuid \in Range(computations)
          /\ is_resolved(comps[log[i].uuid]) = "true"
          /\ input_items(comps[log[i].uuid]) # {}

HeldBefore(n, u) == n <= Len(h1.items) /\ ReferencedBy(h1.items[n], u)

\* C13: when a bound item held by a bound Output fires needs_rebind, the
\* Output ends holding the fresh resolution of its Specifier(s)
C13_OutputRebound ==
    (lastOp = "remove_data_item" /\ h1.is_bound /\ raised = None) =>
        \A j \in 1..Len(Subj.results) :
            HeldBefore(Len(Subj.variables) + j, arg) =>
                Subj.results[j].bound_item = OutputBind(Subj, Subj.results[j], present)

\* C14: an operation in which a bound Variable is rebound leaves needs_update
\* set and has fired computation_mutated_event at least once
C14_RebindMarksUpdate ==
    (lastOp = "remove_data_item" /\ h1.is_bound /\ raised = None) =>
        \A i \in 1..Len(Subj.variables) :
            HeldBefore(i, arg) => (Subj.needs_update /\ Subj.mutated >= 1)

\* every Specifier of the Computation has a bound item
FullyBound(c) ==
    /\ \A i \in 1..Len(c.variables) :
          c.variables[i].specifier # NoSpec => c.variables[i].bound_item # NoBound
    /\ \A j \in 1..Len(c.results) :
          /\ c.results[j].specifier # NoSpec => c.results[j].bound_item # NoBound
          /\ c.results[j].has_specifiers =>
                /\ c.results[j].bound_item.kind = "list"
                /\ Len(c.results[j].bound_item.items) = Len(c.results[j].specifiers)

\* C15: is_resolved is true exactly when every Variable with a Specifier and
\* every Output with a Specifier holds a bound item and every Specifier of
\* an Output's list resolved to a bound item
C15_IsResolvedIff ==
    (is_resolved(Subj) = "true") <=> FullyBound(Subj)

\* C17: after an evaluate that returns an error text, error_text of the
\* Computation is that text, computation_mutated_event has fired, and
\* needs_update is false
C17_FailureRecorded ==
    (lastOp = "evaluate" /\ raised = None /\ ret.error_text # None) =>
        /\ Subj.error_text = ret.error_text
        /\ Subj.mutated >= 1
        /\ ~Subj.needs_update

\* C18: a Variable has an open bound item, and listens to one, exactly when
\* it holds one: every bound item it held before is closed
C18_OneOpenBoundItem ==
    \A i \in 1..Len(Subj.variables) :
        LET v == Subj.variables[i]
            n == IF v.bound_item # NoBound THEN 1 ELSE 0
        IN v.open = n /\ v.blisten = n

C18_Witness ==
    /\ lastOp = "bind" /\ h2.on /\ raised = None
    /\ \E i \in 1..Len(Subj.variables) :
          /\ Subj.variables[i].bound_item.kind = "item"
          /\ Subj.variables[i].open = 1

\* C19: after unbind has returned, no Output listens to needs_rebind of a
\* bound item it held
C19_OutputReleases ==
    (lastOp = "unbind" /\ raised = None) =>
        \A j \in 1..Len(Subj.results) : Subj.results[j].stale = {}

\* property changes of a Variable and notifications of discarded bound items
SilencedOps ==
    {"set_value", "set_input_item", "set_variable_type", "restore_properties",
     "discarded_item_fires"}

\* C11: once unbind has returned and until bind is called again, a property
\* change of a Variable or a notification from a bound item the Computation
\* held does not set needs_update, fires no computation_mutated_event, binds
\* no slot and registers no listener
C11_UnboundIsSilent ==
    (lastOp \in SilencedOps /\ h2.on) =>
        /\ raised = None
        /\ Subj.needs_update = h1.needs_update
        /\ Subj.mutated = 0
        /\ AllSlotsNull(Subj)
        /\ SlotListeners(Subj) = h1.listeners
        /\ Unbound(Subj)

C11_Witness ==
    /\ lastOp \in {"set_value", "set_input_item"}
    /\ h2.on
    /\ ~Subj.needs_update
    /\ raised = None

\* the fresh resolution of Variable i against the context
FreshResolution(c, i) ==
    resolve_object_specifier(c, variable_specifier(c.variables[i]),
                             c.variables[i].has_objects, c.variables[i].objects, present)

\* Variable i has been unbound and bound again
Rebound(c, i) ==
    /\ c.variables[i].bound_item = FreshResolution(c, i)
    /\ c.needs_update
    /\ c.variables[i].open = (IF c.variables[i].bound_item # NoBound THEN 1 ELSE 0)
    /\ c.variables[i].blisten = c.variables[i].open
    /\ c.variables[i].uuid \in c.vchg
    /\ c.variables[i].uuid \in c.vreb
    /\ c.variables[i].nchg + c.variables[i].nreb = h1.listeners[i]

\* C12: when the bound item of a bound Variable fires needs_rebind, also
\* because its target is removed, the Variable ends holding the fresh
\* resolution of its Specifier with the old bound item and its listeners
\* closed, the Computation listens to the Variable as before, and
\* needs_update is set
C12_VariableRebound ==
    /\ lastOp = "bound_item_needs_rebind" =>
          (raised = None /\ \A i \in 1..Len(Subj.variables) :
                               Subj.variables[i].uuid = arg => Rebound(Subj, i))
    /\ (lastOp = "remove_data_item" /\ h1.is_bound) =>
          \A i \in 1..Len(Subj.variables) :
              (HeldBefore(i, arg) /\ h1.items[i].kind = "item") =>
                  (raised = None /\ Rebound(Subj, i)
                   /\ Subj.variables[i].bound_item = NoBound)

C12_Witness ==
    /\ lastOp = "bound_item_needs_rebind"
    /\ ~h1.needs_update
    /\ Subj.needs_update
    /\ Subj.variables[1].bound_item.kind = "item"

\* C16: no Variable has both a value_type and a specifier
C16_ValueXorSpecifier ==
    \A i \in 1..Len(Subj.variables) :
        ~(Subj.variables[i].value_type # None /\ Subj.variables[i].specifier # NoSpec)

\* the uuids of a sequence are all different
Unique(q) == \A i, j \in 1..Len(q) : i # j => q[i] # q[j]

\* C20: after any sequence of append_X, remove_X, restore_data_item and
\* read_project no two entities of one collection share a uuid, and
\* append_X of a uuid the collection holds fails an assertion and inserts
\* nothing.
C20_UniqueUuids ==
    /\ \A c \in Range(Collections) : Unique(StoreItems[c])
    /\ \A c \in Range(Collections) :
          (lastOp = AppendOp[c] /\ h2) =>
              (raised = "AssertionError" /\ StoreItems = h1)

\* append_data_item of a uuid the Project holds was refused, in a Project
\* that holds two data items, a display item and a Computation
C20_Witness ==
    /\ lastOp = "append_data_item"
    /\ h2
    /\ raised = "AssertionError"
    /\ Len(data_items) = 2
    /\ computations # <<>>
    /\ display_items # <<>>

\* read_project skipped a uuid its collection held already
C20_ReadWitness ==
    /\ lastOp = "read_project"
    /\ h2
    /\ raised = None
    /\ Len(data_items) = 2

\* the collections that hold an entity with uuid u
HoldersOf(u) == {c \in Range(Collections) : u \in Range(StoreItems[c])}

\* C21: no two entities of a Project share a uuid, whichever collections
\* they are in, so a lookup by uuid finds one entity at most.
C21_UniqueAcrossCollections ==
    /\ \A u \in StoreIds : Cardinality(HoldersOf(u)) <= 1
    /\ lastOp = "_get_related_item" =>
          (ret.value = None \/ HoldersOf(arg) = {ret.value})

\* the positions in the last operation's events of call ev on item u of
\* collection c
EventsOf(ev, c, u) ==
    {i \in 1..Len(ret.events) :
        /\ ret.events[i].ev = ev
        /\ ret.events[i].coll = c
        /\ ret.events[i].item = u}

\* the one position of that call, when it was made exactly once
Once(ev, c, u) == Cardinality(EventsOf(ev, c, u)) = 1

At(ev, c, u) == CHOOSE i \in EventsOf(ev, c, u) : TRUE

InsertedBy(c) == Range(StoreItems[c]) \ Range(h1[c])

RemovedBy(c) == Range(h1[c]) \ Range(StoreItems[c])

\* C22: for every insertion into and removal from a collection the
\* entity's about_to_be_inserted / about_to_be_removed runs once, and after
\* it the Project's notify_insert_item / notify_remove_item runs once, with
\* the entity and its index.
C22_HookThenNotify ==
    \A c \in Range(Collections) : \A u \in IdsOf(c) :
        /\ u \in InsertedBy(c) =>
              /\ Once("about_to_be_inserted", c, u)
              /\ Once("notify_insert_item", c, u)
              /\ At("about_to_be_inserted", c, u) < At("notify_insert_item", c, u)
              /\ ret.events[At("notify_insert_item", c, u)].index
                    = IndexOf(StoreItems[c], u) - 1
        /\ u \in RemovedBy(c) =>
              /\ Once("about_to_be_removed", c, u)
              /\ Once("notify_remove_item", c, u)
              /\ At("about_to_be_removed", c, u) < At("notify_remove_item", c, u)
              /\ ret.events[At("notify_remove_item", c, u)].index
                    = IndexOf(h1[c], u) - 1
        /\ u \notin InsertedBy(c) =>
              /\ EventsOf("about_to_be_inserted", c, u) = {}
              /\ EventsOf("notify_insert_item", c, u) = {}
        /\ u \notin RemovedBy(c) => EventsOf("notify_remove_item", c, u) = {}

\* read_project loaded two entities into a Project that held some, and a
\* removal took the first of two data items
C22_Witness ==
    /\ lastOp = "read_project"
    /\ Cardinality(UNION {InsertedBy(c) : c \in Range(Collections)}) = 2
    /\ \E c \in Range(Collections) : h1[c] # <<>>

C22_RemoveWitness ==
    /\ lastOp = "remove_data_item"
    /\ Len(h1.data_items) = 2
    /\ h1.data_items[1] = arg

\* C23: when a Computation or a DataStructure is removed, the listeners of
\* its about_to_be_removed_event run while its container reference is set
\* and it is not marked removed; the reference is cleared and the mark set
\* when about_to_be_removed returns.
C23_NotifiedWhileAttached ==
    \A c \in {"computations", "data_structures"} : \A u \in RemovedBy(c) :
        /\ Once("about_to_be_removed_event", c, u)
        /\ Once("about_to_be_removed", c, u)
        /\ At("about_to_be_removed_event", c, u) < At("about_to_be_removed", c, u)
        /\ ret.events[At("about_to_be_removed_event", c, u)].container
        /\ ~ret.events[At("about_to_be_removed_event", c, u)].removed
        /\ ~ret.events[At("about_to_be_removed", c, u)].container
        /\ ret.events[At("about_to_be_removed", c, u)].removed

C23_Witness ==
    /\ lastOp \in {"remove_computation", "remove_data_structure"}
    /\ raised = None
    /\ RemovedBy("computations") \cup RemovedBy("data_structures") # {}

\* how often uuid u is in sequence q
Count(q, u) == Cardinality({i \in 1..Len(q) : q[i] = u})

\* C24: restore_data_item returns null and changes nothing when the storage
\* holds no item of the uuid; otherwise it returns the data item of that
\* uuid, which is in data_items once and has the Project as container; when
\* a data item of that uuid is present it fails an assertion and inserts
\* nothing.
C24_RestoreDataItem ==
    lastOp = "restore_data_item" =>
        /\ ~h2.stored =>
              /\ raised = None
              /\ ret.value = None
              /\ StoreItems = h1
        /\ (h2.stored /\ ~h2.present) =>
              /\ raised = None
              /\ ret.value = arg
              /\ Count(data_items, arg) = 1
              /\ Once("about_to_be_inserted", "data_items", arg)
              /\ ret.events[At("about_to_be_inserted", "data_items", arg)].container
        /\ (h2.stored /\ h2.present) =>
              /\ raised = "AssertionError"
              /\ StoreItems = h1

C24_Witness ==
    /\ lastOp = "restore_data_item"
    /\ h2.stored
    /\ ~h2.present
    /\ Len(data_items) = 2

C24_PresentWitness ==
    /\ lastOp = "restore_data_item"
    /\ h2.stored
    /\ h2.present

\* C28: after Project.close every entity of the five collections has been
\* notified about_to_be_removed once and closed once, and for the data
\* items every about_to_close precedes every about_to_be_removed, which
\* precedes every close.
C28_CloseReleasesAll ==
    lastOp = "close" =>
        /\ \A c \in Range(Collections) : \A u \in Range(StoreItems[c]) :
              /\ Once("about_to_be_removed", c, u)
              /\ Once("close", c, u)
        /\ \A u, w \in Range(data_items) :
              /\ Once("about_to_close", "data_items", u)
              /\ At("about_to_close", "data_items", u)
                    < At("about_to_be_removed", "data_items", w)
              /\ At("about_to_be_removed", "data_items", u)
                    < At("close", "data_items", w)

\* C25: undelete_all right after a cascading delete puts every restored
\* entity back at the index it had, so every collection of the Project is in
\* the order it was in before the delete.
C25_UndoPreservesOrder ==
    Undone =>
        /\ data_items = h2.before.data_items
        /\ data_structures = h2.before.data_structures
        /\ computations = h2.before.computations

\* C26: an UndeleteLog is consumed by one undelete_all: a second
\* undelete_all on the same log undeletes no record again.
C26_LogConsumedOnce ==
    \A i \in 1..Len(log) : log[i].undeletes <= 1

\* C27: close closes every record of the log once, whether undelete_all was
\* called before or not, and after close append, undelete_all and close
\* raise and change nothing.
C27_CloseOnceThenUnusable ==
    /\ \A i \in 1..Len(log) : log[i].closes = IF log_closed THEN 1 ELSE 0
    /\ (lastOp # None /\ h1.none) =>
          /\ raised # None
          /\ log = h1.items
          /\ log_closed

\* a log of two records was closed after a replay, and a call on the
\* closed log was refused
C27_Witness ==
    /\ lastOp = "undelete_all"
    /\ h1.none
    /\ raised = "TypeError"
    /\ Len(log) = 2
    /\ \E i \in 1..Len(log) : log[i].undeletes = 1

C27_AppendWitness ==
    /\ lastOp = "append"
    /\ h1.none
    /\ raised = "AttributeError"

C27_CloseWitness ==
    /\ lastOp = "close"
    /\ h1.none
    /\ raised = "TypeError"

\* C29: a DataStructure has a reference proxy for property p exactly when p
\* is present with a Specifier-shaped value, and no proxy is dropped without
\* being closed when its property is replaced or removed.
C29_ProxyIffSpecifier ==
    /\ \A p \in PropNames :
          structure.proxies[p].exists
              <=> (structure.properties[p] # Absent
                   /\ specifier_shaped(structure.properties[p]))
    /\ structure.unclosed = {}

\* the own Variables of the Computation that specifier sp names
OwnVariables(sp) ==
    {i \in 1..Len(Subj.variables) :
        sp.uuid # None /\ Subj.variables[i].uuid = sp.uuid}

\* C30: resolve_object_specifier gives the pass-through bound variable,
\* whose value is the Variable's value, for an own Variable without
\* Specifier, null for an own Variable with a Specifier, and otherwise what
\* the enclosing context gives: null for no specifier, no uuid, an unknown or
\* a dangling target; it does not raise.
C30_ResolveOrder ==
    lastOp = "resolve_object_specifier" =>
        /\ raised = None
        /\ \A i \in OwnVariables(arg) :
              IF Subj.variables[i].specifier = NoSpec
              THEN /\ ret.bound = BoundVariable(Subj.variables[i].uuid)
                   /\ BoundValue(Subj, ret.bound) = Subj.variables[i].value
              ELSE ret.bound = NoBound
        /\ OwnVariables(arg) = {} =>
              /\ ret.bound = ProjectResolve(arg, FALSE, <<>>, present)
              /\ (arg.uuid = None \/ arg.uuid \notin present) => ret.bound = NoBound

\* an own Variable with a Specifier was asked for, in a Computation that
\* also has a value-typed Variable
C30_Witness ==
    /\ lastOp = "resolve_object_specifier"
    /\ \E i \in OwnVariables(arg) : Subj.variables[i].specifier # NoSpec
    /\ \E i \in 1..Len(Subj.variables) : Subj.variables[i].specifier = NoSpec

C30_PassThroughWitness ==
    /\ lastOp = "resolve_object_specifier"
    /\ \E i \in OwnVariables(arg) :
          /\ Subj.variables[i].specifier = NoSpec
          /\ Subj.variables[i].value = "val"

C30_DelegatedWitness ==
    /\ lastOp = "resolve_object_specifier"
    /\ OwnVariables(arg) = {}
    /\ ret.bound = BoundItem(Target)

\* C31: evaluate_with_target is gated like evaluate: with needs_update false
\* it executes nothing and counts nothing, and it executes the expression
\* against the target only when needs_update was set and the Computation is
\* resolved
C31_TargetGated ==
    [][(lastOp' = "evaluate_with_target" /\ raised' = None) =>
          LET c == comps[Subject]
              d == comps'[Subject]
          IN /\ ~c.needs_update => (d.calls = c.calls /\ d.count = c.count)
             /\ d.calls > c.calls => (c.needs_update /\ is_resolved(c) = "true")]_vars

\* C33: reading is_resolved never raises, and it is false for a Computation
\* that holds an Output with a non-empty list of Specifiers and no bound item
C33_IsResolvedTotal ==
    LET c == comps[Subject] IN
    /\ is_resolved(c) \in {"true", "false"}
    /\ (\E j \in 1..Len(c.results) :
           /\ c.results[j].has_specifiers
           /\ c.results[j].specifiers # <<>>
           /\ c.results[j].bound_item = NoBound)
          => is_resolved(c) = "false"

\* index of the Variable with that uuid
VarIndex(c, id) == CHOOSE i \in 1..Len(c.variables) : c.variables[i].uuid = id

\* the last operation was op on a Specifier-valued Variable the Computation
\* has bound
OnBoundVariable(op) ==
    /\ lastOp = op
    /\ raised = None
    /\ arg \in comps[Subject].vreb
    /\ comps[Subject].variables[VarIndex(comps[Subject], arg)].value_type = None

\* C34: assigning a new specifier to a bound Variable, or assigning its
\* secondary specifier, makes the Computation unbind and bind that Variable
\* exactly once
C34_OneRebindCycle ==
    (OnBoundVariable("set_input_item") \/ OnBoundVariable("set_secondary_specifier"))
        => h2.rebinds = 1

\* C35: when the specifier of a bound Variable is replaced, no listener of
\* computation_mutated_event runs while the Variable still holds the bound
\* item that was resolved from the old specifier
C35_ReboundBeforeNotified ==
    OnBoundVariable("set_input_item")
        => LET i   == VarIndex(comps[Subject], arg)
               old == h2.before.items[i]
           IN old # NoBound =>
                 \A n \in 1..Len(h2.seen) : h2.seen[n].items[i] # old

\* operations that edit the structure of a Computation or mark it
StructuralEdits ==
    {"insert_variable", "remove_variable", "clear_referenced_object",
     "set_expression", "mark_update"}

\* C36: every listener of computation_mutated_event that runs because of a
\* structural edit or a mark finds needs_update already set
C36_MarkedBeforeNotified ==
    (lastOp \in StructuralEdits /\ raised = None)
        => \A n \in 1..Len(h2.seen) : h2.seen[n].needs_update

\* C39: assigning to expression a text that differs from the current one
\* stores it, clears processing_id, sets needs_update and fires
\* computation_mutated_event once, and changes nothing else; assigning the
\* current text changes nothing and fires nothing
C39_ExpressionFrame ==
    [][lastOp' = "set_expression" =>
          LET c == comps[Subject]
              d == comps'[Subject]
          IN IF arg' # c.original_expression
             THEN /\ d = [c EXCEPT !.original_expression = arg',
                                   !.processing_id = None,
                                   !.needs_update = TRUE,
                                   !.mutated = 1]
                  /\ Len(h2'.seen) = 1
             ELSE /\ d = [c EXCEPT !.mutated = 0]
                  /\ h2'.seen = <<>>]_vars

\* a new text was assigned to a Computation that had a processing_id and
\* did not need an update
C39_Witness ==
    /\ lastOp = "set_expression"
    /\ Subj.original_expression = arg
    /\ Subj.mutated = 1
    /\ ~h2.before.needs_update
    /\ Subj.needs_update
    /\ Subj.processing_id = None

\* the current text was assigned to a Computation with a processing_id
C39_SameTextWitness ==
    /\ lastOp = "set_expression"
    /\ Subj.original_expression = arg
    /\ Subj.mutated = 0
    /\ Subj.processing_id # None
    /\ ~Subj.needs_update

\* the last operation changed the objects of a list-valued Variable
ObjectsChanged ==
    /\ lastOp \in {"insert_item_into_objects", "remove_item_from_objects"}
    /\ raised = None

\* C37: every insertion into and removal from the objects of a list-valued
\* Variable fires the Variable's needs_rebind once and leaves
\* object_specifiers equal to the items of the objects model
C37_ObjectsInLockstep ==
    ObjectsChanged =>
        /\ h2.fires = 1
        /\ \A i \in 1..Len(Subj.variables) :
              Subj.variables[i].object_specifiers = Subj.variables[i].objects

\* C38: an instance is removed and closed at most once: a second
\* about_to_be_removed fails and does not notify the listeners of
\* about_to_be_removed_event again, close fails unless about_to_be_removed
\* has happened, and a second close fails
C38_RemovedAndClosedOnce ==
    /\ (lastOp = "about_to_be_removed" /\ h1.about_to_be_removed)
          => (raised # None /\ h2 = <<>>)
    /\ (lastOp = "close" /\ (~h1.about_to_be_removed \/ h1.closed))
          => raised # None

\* C32: a change added to the pending state under the mutex is read by a
\* later drain: it stays pending until a drain reads it, the list controller
\* has a scheduled update task that has yet to read whenever a change is
\* unread, and only the main thread acts on what a drain read
C32_NoChangeLost ==
    panel.kind \in ControllerKinds =>
        /\ panel.unobserved \subseteq panel.pending
        /\ (panel.kind = "list" /\ panel.unobserved # {}) =>
               panel.tasks > (IF panel.main \in {"read", "reset", "out"} THEN 1 ELSE 0)
        /\ panel.actors \subseteq {"main"}
        /\ panel.acted \subseteq Changeables(panel.kind)

\* a change arrived while a drain that had read an earlier one was yet to act
C32_Witness ==
    /\ panel.kind \in ControllerKinds
    /\ panel.main = "out"
    /\ panel.local # {}
    /\ panel.unobserved # {}
    /\ panel.notifier = "added"

\* C40: once periodic has performed every queued task the count is the number
\* of data items of the binding
C40_CountIsBindingSize ==
    (panel.kind = "library" /\ lastOp = "periodic" /\ panel.queue = <<>>) =>
        panel.count = panel.items

====
